---- MODULE Spec2Model ----
(***************************************************************************)
(* State-machine models of the concurrent examples of the repository:     *)
(* the shared counter (item_54), the closable-queue pipelines (item_55,    *)
(* item_58), the thread-pool simulation (item_59), the locking grid        *)
(* (item_57/58/59), the log-file merger (item_62) and the guessing-game    *)
(* client/server (item_61).  Each example has its own specification; the   *)
(* variables of the other examples stay parked at their idle values.       *)
(***************************************************************************)
EXTENDS Integers, Sequences, FiniteSets, TLC

VARIABLES
    \* item_54: Counter / LockingCounter with worker threads
    counterClass, count, lock, barrierArrived, wpc, wleft, wvalue, mpc, found,
    \* item_55 / item_58: ClosableQueue pipelines with StoppableWorker threads
    program, grid, failing, pool, queue, unfinished, swpc, switem, ppc, pidx, next_grid,
    \* item_59 (and item_57): LockingGrid and simulate_pool
    lockOf, fstate, tpc, tcell, ti, tstate, tcount, spc, sidx, output, sresult,
    \* item_61: the guessing game, Session / Client and AsyncSession / AsyncClient
    gimpl, rand, rpos, sessions, lower, upper, secret, guesses, srvpc, c2s, s2c,
    csecret, last_distance, cpc, csess, cleft, cnumber, cexc, results, first_outcome,
    \* item_62: tail_file over growing files, merged by threads, mixed and tasks
    mrun, mstate, written, hclosed, tlpc, offset, tline, moutput, output_open, wlock,
    callq, first_merged,
    \* the single-threaded examples: which script runs, and item_73's book queue
    script, book_due, book_returned, hq, hnow, hresult,
    \* the harness at the top of the scripts and the process exit
    hpc, cwd, test_dir, written_in, open_files, atexit_funcs, outcome,
    \* item_68: the names the script has bound, the object, its bytes, the loaded object
    example, GameState, pickler, unpickler, dispatch_table, game_state, serialized, state_after,
    \* item_52: the child process of Popen(['sleep', '10']) and the parent
    child, exit_status, sigterm, returncode, procpc, polled,
    \* item_44: a FixedResistance; item_46: the Grade descriptors of Exam
    r_ohms, r_call, grade_values, grade_call,
    \* item_48: the subclasses defined so far, the last class statement, the instances
    classes, class_call, instances,
    \* item_47: the _data of a BrokenDictionaryRecord, the last attribute access and
    \* how often it entered __getattribute__
    record_data, attr_call, getattribute_calls,
    \* item_66: the level attribute of each logger, the with log_level block the script
    \* is in or was last in, its old_level, and the levels when it was entered
    logger_level, ll_inside, ll_name, old_level, levels_at_enter

counterVars == <<counterClass, count, lock, barrierArrived, wpc, wleft, wvalue, mpc, found>>

\* grid, failing and next_grid are shared by the simulations of item_58 and item_59
simVars == <<grid, failing, next_grid>>

pipeVars == <<program, pool, queue, unfinished, swpc, switem, ppc, pidx>>

poolVars == <<lockOf, fstate, tpc, tcell, ti, tstate, tcount, spc, sidx, output, sresult>>

gameVars == <<gimpl, rand, rpos, sessions, lower, upper, secret, guesses, srvpc, c2s, s2c,
              csecret, last_distance, cpc, csess, cleft, cnumber, cexc, results, first_outcome>>

mergeVars == <<mrun, mstate, written, hclosed, tlpc, offset, tline, moutput, output_open,
               wlock, callq, first_merged>>

heapVars == <<book_due, book_returned, hq, hnow, hresult>>

harnessVars == <<hpc, cwd, test_dir, written_in, open_files, atexit_funcs, outcome>>

pickleVars == <<example, GameState, pickler, unpickler, dispatch_table, game_state, serialized,
                state_after>>

procVars == <<child, exit_status, sigterm, returncode, procpc, polled>>

attrVars == <<r_ohms, r_call, grade_values, grade_call>>

classVars == <<classes, class_call, instances>>

recordVars == <<record_data, attr_call, getattribute_calls>>

logVars == <<logger_level, ll_inside, ll_name, old_level, levels_at_enter>>

hookVars == <<classVars, recordVars, logVars>>

\* the variables of the examples of items 73, 54, 68, 52, 44 and 46
plainVars == <<heapVars, harnessVars, pickleVars, procVars, attrVars>>

scriptVars == <<script, plainVars, hookVars>>

vars == <<counterVars, simVars, pipeVars, poolVars, gameVars, mergeVars, scriptVars>>

\* the variables of the other examples, which an example leaves alone
notCounter == <<simVars, pipeVars, poolVars, gameVars, mergeVars, scriptVars>>
notPipe == <<counterVars, poolVars, gameVars, mergeVars, scriptVars>>
notPool == <<counterVars, pipeVars, gameVars, mergeVars, scriptVars>>
notGame == <<counterVars, simVars, pipeVars, poolVars, mergeVars, scriptVars>>
notMerge == <<counterVars, simVars, pipeVars, poolVars, gameVars, scriptVars>>
notScript == <<counterVars, simVars, pipeVars, poolVars, gameVars, mergeVars>>

None == "None"
\* a threading.Lock that no thread holds
Free == 0

(***************************************************************************)
(* item_54: Counter, LockingCounter, worker and the main thread            *)
(***************************************************************************)

\* Number of worker threads started by the main thread (5 in the example).
NumThreads == 2
\* Number of increments of each worker (10**5 in the example).
how_many == 2

Threads == 1..NumThreads

IdleCounter ==
    /\ counterClass = None
    /\ count = 0
    /\ lock = Free
    /\ barrierArrived = {}
    /\ wpc = [t \in Threads |-> "unstarted"]
    /\ wleft = [t \in Threads |-> 0]
    /\ wvalue = [t \in Threads |-> 0]
    /\ mpc = "idle"
    /\ found = 0

\* counter = Counter() / counter = LockingCounter(); BARRIER = Barrier(n)
InitCounter ==
    /\ counterClass \in {"Counter", "LockingCounter"}
    /\ count = 0
    /\ lock = Free
    /\ barrierArrived = {}
    /\ wpc = [t \in Threads |-> "unstarted"]
    /\ wleft = [t \in Threads |-> how_many]
    /\ wvalue = [t \in Threads |-> 0]
    /\ mpc = "start"
    /\ found = 0

\* main: thread = Thread(target=worker, ...); thread.start(), in index order
StartWorker(t) ==
    /\ mpc = "start"
    /\ wpc[t] = "unstarted"
    /\ \A u \in Threads : u < t => wpc[u] # "unstarted"
    /\ wpc' = [wpc EXCEPT ![t] = "barrier"]
    /\ mpc' = IF t = NumThreads THEN "join" ELSE "start"
    /\ UNCHANGED <<notCounter, counterClass, count, lock, barrierArrived, wleft, wvalue, found>>

\* worker: BARRIER.wait() - arrive
BarrierArrive(t) ==
    /\ wpc[t] = "barrier"
    /\ barrierArrived' = barrierArrived \cup {t}
    /\ wpc' = [wpc EXCEPT ![t] = "waiting"]
    /\ UNCHANGED <<notCounter, counterClass, count, lock, wleft, wvalue, mpc, found>>

\* state a worker is in when it enters counter.increment(1)
EnterIncrementUnlocked(t) == "load"

EnterIncrement(t) == IF counterClass = "LockingCounter" THEN "acquire" ELSE "load"

\* worker with one iteration too many: for _ in range(how_many + 1)
LoopHeadOneMore(t) ==
    /\ \/ wpc[t] = "waiting" /\ barrierArrived = Threads
       \/ wpc[t] = "loop"
    /\ wpc' = [wpc EXCEPT ![t] = IF wleft[t] = -1 THEN "done" ELSE EnterIncrement(t)]
    /\ UNCHANGED <<notCounter, counterClass, count, lock, barrierArrived, wleft, wvalue, mpc, found>>

\* worker: BARRIER.wait() returns once all parties arrived; for _ in range(how_many)
LoopHead(t) ==
    /\ \/ wpc[t] = "waiting" /\ barrierArrived = Threads
       \/ wpc[t] = "loop"
    /\ wpc' = [wpc EXCEPT ![t] = IF wleft[t] = 0 THEN "done" ELSE EnterIncrement(t)]
    /\ UNCHANGED <<notCounter, counterClass, count, lock, barrierArrived, wleft, wvalue, mpc, found>>

\* LockingCounter.increment: with self.lock (acquire)
Acquire(t) ==
    /\ wpc[t] = "acquire"
    /\ lock = Free
    /\ lock' = t
    /\ wpc' = [wpc EXCEPT ![t] = "load"]
    /\ UNCHANGED <<notCounter, counterClass, count, barrierArrived, wleft, wvalue, mpc, found>>

\* self.count += offset, first half: value = getattr(counter, 'count')
Load(t) ==
    /\ wpc[t] = "load"
    /\ wvalue' = [wvalue EXCEPT ![t] = count]
    /\ wpc' = [wpc EXCEPT ![t] = "store"]
    /\ UNCHANGED <<notCounter, counterClass, count, lock, barrierArrived, wleft, mpc, found>>

\* self.count += offset, second half: setattr(counter, 'count', value + offset)
Store(t) ==
    /\ wpc[t] = "store"
    /\ count' = wvalue[t] + 1
    /\ wpc' = [wpc EXCEPT ![t] = IF lock = t THEN "release" ELSE "loop"]
    /\ wleft' = [wleft EXCEPT ![t] = @ - 1]
    /\ UNCHANGED <<notCounter, counterClass, lock, barrierArrived, wvalue, mpc, found>>

\* LockingCounter.increment: leaving the with block (release)
Release(t) ==
    /\ wpc[t] = "release"
    /\ lock = t
    /\ lock' = Free
    /\ wpc' = [wpc EXCEPT ![t] = "loop"]
    /\ UNCHANGED <<notCounter, counterClass, count, barrierArrived, wleft, wvalue, mpc, found>>

\* main: for thread in threads: thread.join(); found = counter.count
JoinAll ==
    /\ mpc = "join"
    /\ \A t \in Threads : wpc[t] = "done"
    /\ found' = count
    /\ mpc' = "joined"
    /\ UNCHANGED <<notCounter, counterClass, count, lock, barrierArrived, wpc, wleft, wvalue>>

NextCounter ==
    \/ \E t \in Threads : StartWorker(t)
    \/ \E t \in Threads : BarrierArrive(t)
    \/ \E t \in Threads : LoopHead(t)
    \/ \E t \in Threads : Acquire(t)
    \/ \E t \in Threads : Load(t)
    \/ \E t \in Threads : Store(t)
    \/ \E t \in Threads : Release(t)
    \/ JoinAll

(***************************************************************************)
(* item_55 / item_58: ClosableQueue, StoppableWorker and the pipelines     *)
(***************************************************************************)

ALIVE == "*"
EMPTY == "-"
\* the exception object a failing call leaves in an item
OSError == "OSError"

\* Grid(height, width)
Height == 1
Width == 2
\* number of objects put on download_queue (1000 in the example)
NumItems == 2
\* largest pool started for one stage (3, 4 and 5 workers in item_55; 5 or 1 in item_58)
MaxPool == 2
\* download, resize, upload
MaxStages == 3

Cells == (0..(Height - 1)) \X (0..(Width - 1))
Stages == 1..MaxStages
Queues == 1..(MaxStages + 1)
Workers == Stages \X (1..MaxPool)

SENTINEL == [sentinel |-> TRUE]
NoItem == [none |-> TRUE]

\* Grid.get(y, x)
GridGet(g, y, x) == g[<<y % Height, x % Width>>]

\* Grid.set(y, x, state)
GridSet(g, y, x, state) == [g EXCEPT ![<<y % Height, x % Width>>] = state]

\* Grid.__init__: every cell EMPTY
EmptyGrid == [c \in Cells |-> EMPTY]

\* the cell visited by the i-th iteration of "for y in range(height): for x in range(width)"
CellAt(i) == <<i \div Width, i % Width>>

\* the neighbours in the order count_neighbors reads them: N, NE, E, SE, S, SW, W, NW
Around == << <<-1, 0>>, <<-1, 1>>, <<0, 1>>, <<1, 1>>,
             <<1, 0>>, <<1, -1>>, <<0, -1>>, <<-1, -1>> >>

count_neighbors(y, x, g) ==
    Cardinality({i \in 1..8 : GridGet(g, y + Around[i][1], x + Around[i][2]) = ALIVE})

game_logic(state, neighbors) ==
    IF state = ALIVE
    THEN IF neighbors < 2 \/ neighbors > 3 THEN EMPTY ELSE state
    ELSE IF neighbors = 3 THEN ALIVE ELSE state

\* count_neighbors_thread(item): an exception raised by count_neighbors is
\* stored in the neighbors slot of the result (raised = TRUE)
count_neighbors_thread(item) ==
    IF <<item.y, item.x>> \in failing
    THEN [y |-> item.y, x |-> item.x, state |-> item.state, neighbors |-> 0, raised |-> TRUE]
    ELSE [y |-> item.y, x |-> item.x, state |-> item.state,
          neighbors |-> count_neighbors(item.y, item.x, grid), raised |-> FALSE]

\* game_logic_thread(item) of the phased pipeline: an exception in the
\* neighbors slot is passed on as next_state
game_logic_thread_phased(item) ==
    [y |-> item.y, x |-> item.x,
     state |-> IF item.raised THEN OSError ELSE game_logic(item.state, item.neighbors)]

\* game_logic_thread(item) of the one-stage pipeline: an exception raised by
\* game_logic becomes next_state
game_logic_thread(item) ==
    [y |-> item.y, x |-> item.x,
     state |-> IF <<item.y, item.x>> \in failing THEN OSError
               ELSE game_logic(item.state, item.neighbors)]

\* number of worker stages of each program
StagesOf(p) == CASE p = "stop" -> 3 [] p = "phased" -> 2 [] OTHER -> 1

\* the function a StoppableWorker of stage s applies (download, resize and
\* upload return their item)
Func(s, item) ==
    CASE program = "phased" /\ s = 1 -> count_neighbors_thread(item)
      [] program = "phased" /\ s = 2 -> game_logic_thread_phased(item)
      [] program = "pipeline" -> game_logic_thread(item)
      [] OTHER -> item

\* Queue.put(item)
Put(qs, q, item) == [qs EXCEPT ![q] = Append(@, item)]

IdleSim ==
    /\ grid = EmptyGrid
    /\ failing = {}
    /\ next_grid = EmptyGrid

IdlePipe ==
    /\ program = None
    /\ pool = [s \in Stages |-> 0]
    /\ queue = [q \in Queues |-> <<>>]
    /\ unfinished = [q \in Queues |-> 0]
    /\ swpc = [w \in Workers |-> "absent"]
    /\ switem = [w \in Workers |-> NoItem]
    /\ ppc = "idle"
    /\ pidx = 0

\* the queues are created empty and the pools are started before the main
\* thread puts anything: every started worker is blocked in in_queue.get()
InitPipe(p) ==
    /\ program = p
    /\ pool \in [Stages -> 0..MaxPool]
    /\ \A s \in Stages : (pool[s] = 0) <=> (s > StagesOf(p))
    /\ queue = [q \in Queues |-> <<>>]
    /\ unfinished = [q \in Queues |-> 0]
    /\ swpc = [w \in Workers |-> IF w[2] <= pool[w[1]] THEN "get" ELSE "absent"]
    /\ switem = [w \in Workers |-> NoItem]
    /\ ppc = "put"
    /\ pidx = 0
    /\ next_grid = EmptyGrid

(* StoppableWorker.run over ClosableQueue.__iter__ *)

\* item = self.get(): blocks while the queue is empty
WorkerGet(w) ==
    /\ swpc[w] = "get"
    /\ queue[w[1]] # <<>>
    /\ switem' = [switem EXCEPT ![w] = Head(queue[w[1]])]
    /\ queue' = [queue EXCEPT ![w[1]] = Tail(@)]
    /\ swpc' = [swpc EXCEPT ![w] = "got"]
    /\ UNCHANGED <<notPipe, program, grid, failing, pool, unfinished, ppc, pidx, next_grid>>

\* if item is self.SENTINEL: return, with task_done() in the finally clause;
\* the iteration ends and so does run()
WorkerSentinel(w) ==
    /\ swpc[w] = "got"
    /\ switem[w] = SENTINEL
    /\ unfinished' = [unfinished EXCEPT ![w[1]] = @ - 1]
    /\ swpc' = [swpc EXCEPT ![w] = "stopped"]
    /\ switem' = [switem EXCEPT ![w] = NoItem]
    /\ UNCHANGED <<notPipe, program, grid, failing, pool, queue, ppc, pidx, next_grid>>

\* yield item; result = self.func(item); self.out_queue.put(result)
WorkerPut(w) ==
    /\ swpc[w] = "got"
    /\ switem[w] # SENTINEL
    /\ queue' = Put(queue, w[1] + 1, Func(w[1], switem[w]))
    /\ unfinished' = [unfinished EXCEPT ![w[1] + 1] = @ + 1]
    /\ swpc' = [swpc EXCEPT ![w] = "task_done"]
    /\ UNCHANGED <<notPipe, program, grid, failing, pool, switem, ppc, pidx, next_grid>>

\* the generator is resumed: finally: self.task_done(), then the next get()
WorkerTaskDone(w) ==
    /\ swpc[w] = "task_done"
    /\ unfinished' = [unfinished EXCEPT ![w[1]] = @ - 1]
    /\ swpc' = [swpc EXCEPT ![w] = "get"]
    /\ switem' = [switem EXCEPT ![w] = NoItem]
    /\ UNCHANGED <<notPipe, program, grid, failing, pool, queue, ppc, pidx, next_grid>>

NextWorker ==
    \/ \E w \in Workers : WorkerGet(w)
    \/ \E w \in Workers : WorkerSentinel(w)
    \/ \E w \in Workers : WorkerPut(w)
    \/ \E w \in Workers : WorkerTaskDone(w)

(* item_55, Example 14: start_threads, the producer loop and stop_threads *)

InitStop ==
    /\ InitPipe("stop")
    /\ grid = EmptyGrid
    /\ failing = {}

\* for _ in range(1000): download_queue.put(object())
PutObject ==
    /\ program = "stop"
    /\ ppc = "put"
    /\ queue' = Put(queue, 1, [id |-> pidx + 1])
    /\ unfinished' = [unfinished EXCEPT ![1] = @ + 1]
    /\ IF pidx + 1 = NumItems
       THEN ppc' = "close" /\ pidx' = 1
       ELSE ppc' = "put" /\ pidx' = pidx + 1
    /\ UNCHANGED <<notPipe, program, grid, failing, pool, swpc, switem, next_grid>>

\* stop_threads: closable_queue.close()   (pidx is the stage being stopped)
StopClose ==
    /\ program = "stop"
    /\ ppc = "close"
    /\ queue' = Put(queue, pidx, SENTINEL)
    /\ unfinished' = [unfinished EXCEPT ![pidx] = @ + 1]
    /\ ppc' = "join_queue"
    /\ UNCHANGED <<notPipe, program, grid, failing, pool, swpc, switem, pidx, next_grid>>

\* stop_threads: closable_queue.join() returns when no task is unfinished
StopJoinQueue ==
    /\ program = "stop"
    /\ ppc = "join_queue"
    /\ unfinished[pidx] = 0
    /\ ppc' = "join_threads"
    /\ UNCHANGED <<notPipe, program, grid, failing, pool, queue, unfinished, swpc, switem, pidx, next_grid>>

\* stop_threads: for thread in threads: thread.join(); then the next
\* stop_threads call of the example
StopJoinThreads ==
    /\ program = "stop"
    /\ ppc = "join_threads"
    /\ \A w \in Workers : w[1] = pidx => swpc[w] \in {"stopped", "absent"}
    /\ IF pidx = StagesOf("stop")
       THEN ppc' = "finished" /\ pidx' = pidx
       ELSE ppc' = "close" /\ pidx' = pidx + 1
    /\ UNCHANGED <<notPipe, program, grid, failing, pool, queue, unfinished, swpc, switem, next_grid>>

NextStop ==
    \/ NextWorker
    \/ PutObject
    \/ StopClose
    \/ StopJoinQueue
    \/ StopJoinThreads

(* item_55, Examples 4-6: MyQueue and the three polling Worker threads      *)

\* Example 6: the four MyQueue objects are empty and the three Workers have
\* been started, one per stage; the main thread is about to put the objects
InitPolling ==
    /\ program = "polling"
    /\ pool = [s \in Stages |-> 1]
    /\ queue = [q \in Queues |-> <<>>]
    /\ unfinished = [q \in Queues |-> 0]
    /\ swpc = [w \in Workers |-> IF w[2] = 1 THEN "get" ELSE "absent"]
    /\ switem = [w \in Workers |-> NoItem]
    /\ ppc = "put"
    /\ pidx = 0
    /\ grid = EmptyGrid
    /\ failing = {}
    /\ next_grid = EmptyGrid

\* Worker.run: item = self.in_queue.get(), MyQueue.get being
\* self.items.popleft() under the lock: on an empty deque popleft raises
\* IndexError, which run does not catch, and the thread ends
PollGet(w) ==
    /\ program = "polling"
    /\ swpc[w] = "get"
    /\ IF queue[w[1]] = <<>>
       THEN /\ swpc' = [swpc EXCEPT ![w] = "IndexError"]
            /\ UNCHANGED <<queue, switem>>
       ELSE /\ switem' = [switem EXCEPT ![w] = Head(queue[w[1]])]
            /\ queue' = [queue EXCEPT ![w[1]] = Tail(@)]
            /\ swpc' = [swpc EXCEPT ![w] = "got"]
    /\ UNCHANGED <<notPipe, program, grid, failing, pool, unfinished, ppc, pidx, next_grid>>

\* Worker.run: if item is None: break   (None is the SENTINEL of this model)
PollNone(w) ==
    /\ program = "polling"
    /\ swpc[w] = "got"
    /\ switem[w] = SENTINEL
    /\ swpc' = [swpc EXCEPT ![w] = "stopped"]
    /\ switem' = [switem EXCEPT ![w] = NoItem]
    /\ UNCHANGED <<notPipe, program, grid, failing, pool, queue, unfinished, ppc, pidx, next_grid>>

\* Worker.run: result = self.func(item); self.out_queue.put(result);
\* self.polled_count += 1; and round the loop
PollPut(w) ==
    /\ program = "polling"
    /\ swpc[w] = "got"
    /\ switem[w] # SENTINEL
    /\ queue' = Put(queue, w[1] + 1, Func(w[1], switem[w]))
    /\ swpc' = [swpc EXCEPT ![w] = "get"]
    /\ switem' = [switem EXCEPT ![w] = NoItem]
    /\ UNCHANGED <<notPipe, program, grid, failing, pool, unfinished, ppc, pidx, next_grid>>

\* for _ in range(1000): download_queue.put(object())
PollingPutObject ==
    /\ program = "polling"
    /\ ppc = "put"
    /\ queue' = Put(queue, 1, [id |-> pidx + 1])
    /\ IF pidx + 1 = NumItems
       THEN ppc' = "wait" /\ pidx' = 1
       ELSE ppc' = "put" /\ pidx' = pidx + 1
    /\ UNCHANGED <<notPipe, program, grid, failing, pool, unfinished, swpc, switem, next_grid>>

\* while len(done_queue.items) < 1000: time.sleep(0.1)
PollingWait ==
    /\ program = "polling"
    /\ ppc = "wait"
    /\ ~(Len(queue[MaxStages + 1]) < NumItems)
    /\ ppc' = "stop"
    /\ UNCHANGED <<notPipe, program, grid, failing, pool, queue, unfinished, swpc, switem, pidx, next_grid>>

\* for thread in threads: thread.in_queue.put(None)   (pidx is the thread)
PollingStop ==
    /\ program = "polling"
    /\ ppc = "stop"
    /\ queue' = Put(queue, pidx, SENTINEL)
    /\ ppc' = "join"
    /\ UNCHANGED <<notPipe, program, grid, failing, pool, unfinished, swpc, switem, pidx, next_grid>>

\* thread.join(): returns once the thread has ended, by break or by exception
PollingJoin ==
    /\ program = "polling"
    /\ ppc = "join"
    /\ swpc[<<pidx, 1>>] \in {"stopped", "IndexError"}
    /\ IF pidx = MaxStages
       THEN ppc' = "finished" /\ pidx' = pidx
       ELSE ppc' = "stop" /\ pidx' = pidx + 1
    /\ UNCHANGED <<notPipe, program, grid, failing, pool, queue, unfinished, swpc, switem, next_grid>>

NextPolling ==
    \/ \E w \in Workers : PollGet(w)
    \/ \E w \in Workers : PollNone(w)
    \/ \E w \in Workers : PollPut(w)
    \/ PollingPutObject
    \/ PollingWait
    \/ PollingStop
    \/ PollingJoin

(* item_58: simulate_pipeline (one worker stage) and                       *)
(* simulate_phased_pipeline (two worker stages)                            *)

\* the grid handed to the simulation; the pools of the stages have the same
\* size (5 and 5, or 1 and 1); failing holds the cells for which the function
\* of the stage raises (game_logic in the pipeline, count_neighbors in the
\* phased one): none with the working definition, every cell with the
\* definition whose body is "raise OSError(...)"
InitSimulate(p) ==
    /\ InitPipe(p)
    /\ \A s \in 1..StagesOf(p) : pool[s] = pool[1]
    /\ grid \in [Cells -> {ALIVE, EMPTY}]
    /\ failing \in {{}, Cells}

\* the queue the main thread fans in from
OutQueue == StagesOf(program) + 1

\* simulate_pipeline: state = grid.get(y, x); neighbors = count_neighbors(y, x, grid.get);
\* in_queue.put((y, x, state, neighbors))
SimulatePipelinePut ==
    /\ program = "pipeline"
    /\ ppc = "put"
    /\ LET y == CellAt(pidx)[1]
           x == CellAt(pidx)[2]
       IN  queue' = Put(queue, 1, [y |-> y, x |-> x, state |-> GridGet(grid, y, x),
                                   neighbors |-> count_neighbors(y, x, grid)])
    /\ unfinished' = [unfinished EXCEPT ![1] = @ + 1]
    /\ IF pidx + 1 = Height * Width
       THEN ppc' = "join_in" /\ pidx' = 0
       ELSE ppc' = "put" /\ pidx' = pidx + 1
    /\ UNCHANGED <<notPipe, program, grid, failing, pool, swpc, switem, next_grid>>

\* simulate_phased_pipeline: state = grid.get(y, x); in_queue.put((y, x, state, grid.get))
SimulatePhasedPut ==
    /\ program = "phased"
    /\ ppc = "put"
    /\ LET y == CellAt(pidx)[1]
           x == CellAt(pidx)[2]
       IN  queue' = Put(queue, 1, [y |-> y, x |-> x, state |-> GridGet(grid, y, x)])
    /\ unfinished' = [unfinished EXCEPT ![1] = @ + 1]
    /\ IF pidx + 1 = Height * Width
       THEN ppc' = "join_in" /\ pidx' = 0
       ELSE ppc' = "put" /\ pidx' = pidx + 1
    /\ UNCHANGED <<notPipe, program, grid, failing, pool, swpc, switem, next_grid>>

\* the position of the main thread once in_queue.join() has returned
AfterJoinIn == IF program = "phased" THEN "join_logic" ELSE "close_out"

\* in_queue.join()
JoinIn ==
    /\ ppc = "join_in"
    /\ unfinished[1] = 0
    /\ ppc' = AfterJoinIn
    /\ UNCHANGED <<notPipe, program, grid, failing, pool, queue, unfinished, swpc, switem, pidx, next_grid>>

\* the fan-in started without waiting for the logic stage
JoinLogicNoWait ==
    /\ ppc = "join_logic"
    /\ ppc' = "close_out"
    /\ UNCHANGED <<notPipe, program, grid, failing, pool, queue, unfinished, swpc, switem, pidx, next_grid>>

\* logic_queue.join()  # Pipeline sequencing
JoinLogic ==
    /\ ppc = "join_logic"
    /\ unfinished[2] = 0
    /\ ppc' = "close_out"
    /\ UNCHANGED <<notPipe, program, grid, failing, pool, queue, unfinished, swpc, switem, pidx, next_grid>>

\* out_queue.close(); next_grid = Grid(grid.height, grid.width)
CloseOut ==
    /\ ppc = "close_out"
    /\ queue' = Put(queue, OutQueue, SENTINEL)
    /\ unfinished' = [unfinished EXCEPT ![OutQueue] = @ + 1]
    /\ next_grid' = EmptyGrid
    /\ ppc' = "fan_in"
    /\ UNCHANGED <<notPipe, program, grid, failing, pool, swpc, switem, pidx>>

\* for item in out_queue: y, x, state = item; next_grid.set(y, x, state)
\* and, when the sentinel ends the iteration, return next_grid
FanIn ==
    /\ ppc = "fan_in"
    /\ queue[OutQueue] # <<>>
    /\ LET item == Head(queue[OutQueue])
       IN  IF item = SENTINEL
           THEN /\ ppc' = "returned"
                /\ UNCHANGED next_grid
           ELSE /\ next_grid' = GridSet(next_grid, item.y, item.x, item.state)
                /\ ppc' = "fan_in"
    /\ queue' = [queue EXCEPT ![OutQueue] = Tail(@)]
    /\ unfinished' = [unfinished EXCEPT ![OutQueue] = @ - 1]
    /\ UNCHANGED <<notPipe, program, grid, failing, pool, swpc, switem, pidx>>

\* len(threads): every worker started for the program
NumStarted == pool[1] + pool[2] + pool[3]

\* after the simulation: for thread in threads: in_queue.close(), and in the
\* phased example also for thread in threads: logic_queue.close()
\* (pidx counts the sentinels put so far)
ShutdownClose ==
    /\ ppc = "returned"
    /\ LET q == (pidx \div NumStarted) + 1
       IN  /\ queue' = Put(queue, q, SENTINEL)
           /\ unfinished' = [unfinished EXCEPT ![q] = @ + 1]
    /\ pidx' = pidx + 1
    /\ ppc' = IF pidx + 1 = NumStarted * StagesOf(program) THEN "join_threads" ELSE "returned"
    /\ UNCHANGED <<notPipe, program, grid, failing, pool, swpc, switem, next_grid>>

\* for thread in threads: thread.join()
ShutdownJoin ==
    /\ program \in {"pipeline", "phased"}
    /\ ppc = "join_threads"
    /\ \A w \in Workers : swpc[w] \in {"stopped", "absent"}
    /\ ppc' = "exited"
    /\ UNCHANGED <<notPipe, program, grid, failing, pool, queue, unfinished, swpc, switem, pidx, next_grid>>

NextPipeline ==
    \/ NextWorker
    \/ SimulatePipelinePut
    \/ JoinIn
    \/ CloseOut
    \/ FanIn
    \/ ShutdownClose
    \/ ShutdownJoin

NextPhased ==
    \/ NextWorker
    \/ SimulatePhasedPut
    \/ JoinIn
    \/ JoinLogic
    \/ CloseOut
    \/ FanIn
    \/ ShutdownClose
    \/ ShutdownJoin

(***************************************************************************)
(* item_59 (item_57, item_58): LockingGrid, step_cell and simulate_pool    *)
(***************************************************************************)

\* the worker threads of ThreadPoolExecutor(max_workers=10)
PoolThreads == 1..MaxPool
\* the thread that calls simulate_pool
MainThread == MaxPool + 1

\* Grid.__str__: the cells of each row followed by a newline
RECURSIVE RowStr(_, _, _)
RowStr(g, y, x) == IF x = Width THEN <<"\n">> ELSE <<g[<<y, x>>]>> \o RowStr(g, y, x + 1)

RECURSIVE GridStr(_, _)
GridStr(g, y) == IF y = Height THEN <<>> ELSE RowStr(g, y, 0) \o GridStr(g, y + 1)

IdlePool ==
    /\ lockOf = [g \in {"grid", "next_grid"} |-> Free]
    /\ fstate = [c \in Cells |-> "unsubmitted"]
    /\ tpc = [k \in PoolThreads |-> "idle"]
    /\ tcell = [k \in PoolThreads |-> <<0, 0>>]
    /\ ti = [k \in PoolThreads |-> 0]
    /\ tstate = [k \in PoolThreads |-> EMPTY]
    /\ tcount = [k \in PoolThreads |-> 0]
    /\ spc = "idle"
    /\ sidx = 0
    /\ output = <<>>
    /\ sresult = None

\* grid = LockingGrid(...) with some cells set ALIVE; game_logic is either the
\* working definition or raises for the cells in failing
InitPool ==
    /\ grid \in [Cells -> {ALIVE, EMPTY}]
    /\ failing \in SUBSET Cells
    /\ next_grid = EmptyGrid
    /\ lockOf = [g \in {"grid", "next_grid"} |-> Free]
    /\ fstate = [c \in Cells |-> "unsubmitted"]
    /\ tpc = [k \in PoolThreads |-> "idle"]
    /\ tcell = [k \in PoolThreads |-> <<0, 0>>]
    /\ ti = [k \in PoolThreads |-> 0]
    /\ tstate = [k \in PoolThreads |-> EMPTY]
    /\ tcount = [k \in PoolThreads |-> 0]
    /\ spc = "str"
    /\ sidx = 0
    /\ output = <<>>
    /\ sresult = None

\* columns.append(str(grid)) - LockingGrid.__str__: with self.lock
StrEnter ==
    /\ spc = "str"
    /\ lockOf["grid"] = Free
    /\ lockOf' = [lockOf EXCEPT !["grid"] = MainThread]
    /\ spc' = "in_str"
    /\ UNCHANGED <<notPool, simVars, fstate, tpc, tcell, ti, tstate, tcount, sidx, output, sresult>>

\* LockingGrid.__str__: return super().__str__(), leaving the with block
StrReturn ==
    /\ spc = "in_str"
    /\ output' = GridStr(grid, 0)
    /\ lockOf' = [lockOf EXCEPT !["grid"] = IF @ = MainThread THEN Free ELSE @]
    /\ spc' = "submit"
    /\ UNCHANGED <<notPool, simVars, fstate, tpc, tcell, ti, tstate, tcount, sidx, sresult>>

\* simulate_pool: future = pool.submit(step_cell, y, x, grid.get, next_grid.set)
Submit ==
    /\ spc = "submit"
    /\ fstate' = [fstate EXCEPT ![CellAt(sidx)] = "pending"]
    /\ IF sidx + 1 = Height * Width
       THEN spc' = "result" /\ sidx' = 0
       ELSE spc' = "submit" /\ sidx' = sidx + 1
    /\ UNCHANGED <<notPool, simVars, lockOf, tpc, tcell, ti, tstate, tcount, output, sresult>>

\* a pool thread takes the oldest work item that is waiting
TakeTask(k) ==
    /\ tpc[k] = "idle"
    /\ \E i \in 0..(Height * Width - 1) :
        /\ fstate[CellAt(i)] = "pending"
        /\ \A j \in 0..(i - 1) : fstate[CellAt(j)] # "pending"
        /\ fstate' = [fstate EXCEPT ![CellAt(i)] = "running"]
        /\ tcell' = [tcell EXCEPT ![k] = CellAt(i)]
    /\ ti' = [ti EXCEPT ![k] = 0]
    /\ tcount' = [tcount EXCEPT ![k] = 0]
    /\ tpc' = [tpc EXCEPT ![k] = "get"]
    /\ UNCHANGED <<notPool, simVars, lockOf, tstate, spc, sidx, output, sresult>>

\* Grid.get called without the lock
GetEnterUnlocked(k) ==
    /\ tpc[k] = "get"
    /\ tpc' = [tpc EXCEPT ![k] = "in_get"]
    /\ UNCHANGED <<notPool, simVars, lockOf, fstate, tcell, ti, tstate, tcount, spc, sidx, output, sresult>>

\* LockingGrid.get: with self.lock
GetEnter(k) ==
    /\ tpc[k] = "get"
    /\ lockOf["grid"] = Free
    /\ lockOf' = [lockOf EXCEPT !["grid"] = k]
    /\ tpc' = [tpc EXCEPT ![k] = "in_get"]
    /\ UNCHANGED <<notPool, simVars, fstate, tcell, ti, tstate, tcount, spc, sidx, output, sresult>>

\* a get that reads the grid being written, next_grid, in the place of grid
GetReturnNextGrid(k) ==
    /\ tpc[k] = "in_get"
    /\ LET y == tcell[k][1]
           x == tcell[k][2]
       IN  IF ti[k] = 0
           THEN /\ tstate' = [tstate EXCEPT ![k] = GridGet(next_grid, y, x)]
                /\ UNCHANGED tcount
           ELSE /\ tcount' = [tcount EXCEPT ![k] =
                        IF GridGet(next_grid, y + Around[ti[k]][1], x + Around[ti[k]][2]) = ALIVE
                        THEN @ + 1 ELSE @]
                /\ UNCHANGED tstate
    /\ lockOf' = [lockOf EXCEPT !["grid"] = IF @ = k THEN Free ELSE @]
    /\ ti' = [ti EXCEPT ![k] = @ + 1]
    /\ tpc' = [tpc EXCEPT ![k] = IF ti[k] = 8 THEN "logic" ELSE "get"]
    /\ UNCHANGED <<notPool, simVars, fstate, tcell, spc, sidx, output, sresult>>

\* LockingGrid.get: return super().get(y, x), leaving the with block. The
\* first call of step_cell reads the cell's state, the eight calls of
\* count_neighbors read its neighbours.
GetReturn(k) ==
    /\ tpc[k] = "in_get"
    /\ LET y == tcell[k][1]
           x == tcell[k][2]
       IN  IF ti[k] = 0
           THEN /\ tstate' = [tstate EXCEPT ![k] = GridGet(grid, y, x)]
                /\ UNCHANGED tcount
           ELSE /\ tcount' = [tcount EXCEPT ![k] =
                        IF GridGet(grid, y + Around[ti[k]][1], x + Around[ti[k]][2]) = ALIVE
                        THEN @ + 1 ELSE @]
                /\ UNCHANGED tstate
    /\ lockOf' = [lockOf EXCEPT !["grid"] = IF @ = k THEN Free ELSE @]
    /\ ti' = [ti EXCEPT ![k] = @ + 1]
    /\ tpc' = [tpc EXCEPT ![k] = IF ti[k] = 8 THEN "logic" ELSE "get"]
    /\ UNCHANGED <<notPool, simVars, fstate, tcell, spc, sidx, output, sresult>>

\* step_cell: next_state = game_logic(state, neighbors); an exception ends
\* the work item and is stored in its future
Logic(k) ==
    /\ tpc[k] = "logic"
    /\ IF tcell[k] \in failing
       THEN /\ fstate' = [fstate EXCEPT ![tcell[k]] = "exception"]
            /\ tpc' = [tpc EXCEPT ![k] = "idle"]
            /\ UNCHANGED tstate
       ELSE /\ tstate' = [tstate EXCEPT ![k] = game_logic(tstate[k], tcount[k])]
            /\ tpc' = [tpc EXCEPT ![k] = "set"]
            /\ UNCHANGED fstate
    /\ UNCHANGED <<notPool, simVars, lockOf, tcell, ti, tcount, spc, sidx, output, sresult>>

\* LockingGrid.set on next_grid: with self.lock
SetEnter(k) ==
    /\ tpc[k] = "set"
    /\ lockOf["next_grid"] = Free
    /\ lockOf' = [lockOf EXCEPT !["next_grid"] = k]
    /\ tpc' = [tpc EXCEPT ![k] = "in_set"]
    /\ UNCHANGED <<notPool, simVars, fstate, tcell, ti, tstate, tcount, spc, sidx, output, sresult>>

\* LockingGrid.set: super().set(y, x, state), leaving the with block;
\* step_cell returns and the future is finished
SetReturn(k) ==
    /\ tpc[k] = "in_set"
    /\ next_grid' = GridSet(next_grid, tcell[k][1], tcell[k][2], tstate[k])
    /\ lockOf' = [lockOf EXCEPT !["next_grid"] = IF @ = k THEN Free ELSE @]
    /\ fstate' = [fstate EXCEPT ![tcell[k]] = "finished"]
    /\ tpc' = [tpc EXCEPT ![k] = "idle"]
    /\ UNCHANGED <<notPool, grid, failing, tcell, ti, tstate, tcount, spc, sidx, output, sresult>>

\* a result() that returns None whatever the work item did
ResultOutcomeSwallowed(c) == None

\* future.result(): the exception of the work item, or None (step_cell returns nothing)
ResultOutcome(c) == IF fstate[c] = "exception" THEN OSError ELSE None

\* simulate_pool: for future in futures: future.result(), then return next_grid;
\* result() blocks until the work item is done and an exception it raises
\* leaves simulate_pool
Result ==
    /\ spc = "result"
    /\ LET c == CellAt(sidx)
       IN  /\ fstate[c] \in {"finished", "exception"}
           /\ IF ResultOutcome(c) # None
              THEN /\ spc' = "raised"
                   /\ sresult' = ResultOutcome(c)
                   /\ UNCHANGED sidx
              ELSE /\ sidx' = sidx + 1
                   /\ spc' = IF sidx + 1 = Height * Width THEN "returned" ELSE "result"
                   /\ sresult' = IF sidx + 1 = Height * Width THEN "next_grid" ELSE sresult
    /\ UNCHANGED <<notPool, simVars, lockOf, fstate, tpc, tcell, ti, tstate, tcount, output>>

NextPool ==
    \/ StrEnter
    \/ StrReturn
    \/ Submit
    \/ \E k \in PoolThreads : TakeTask(k)
    \/ \E k \in PoolThreads : GetEnter(k)
    \/ \E k \in PoolThreads : GetReturn(k)
    \/ \E k \in PoolThreads : Logic(k)
    \/ \E k \in PoolThreads : SetEnter(k)
    \/ \E k \in PoolThreads : SetReturn(k)
    \/ Result

(* item_57: simulate_threaded, one Thread per cell running step_cell        *)

\* simulate_threaded(grid) is called with the working game_logic (the raising
\* definition of Example 4 comes after the last call); next_grid is a new
\* LockingGrid. A started thread is a pending work item that any of the
\* MaxPool threads of this model may become, which is every interleaving as
\* long as Height * Width <= MaxPool
InitThreaded ==
    /\ grid \in [Cells -> {ALIVE, EMPTY}]
    /\ failing = {}
    /\ next_grid = EmptyGrid
    /\ lockOf = [g \in {"grid", "next_grid"} |-> Free]
    /\ fstate = [c \in Cells |-> "unsubmitted"]
    /\ tpc = [k \in PoolThreads |-> "idle"]
    /\ tcell = [k \in PoolThreads |-> <<0, 0>>]
    /\ ti = [k \in PoolThreads |-> 0]
    /\ tstate = [k \in PoolThreads |-> EMPTY]
    /\ tcount = [k \in PoolThreads |-> 0]
    /\ spc = "start"
    /\ sidx = 0
    /\ output = <<>>
    /\ sresult = None

\* thread = Thread(target=step_cell, args=(y, x, grid.get, next_grid.set));
\* threads.append(thread); thread.start()
ThreadStart ==
    /\ spc = "start"
    /\ fstate' = [fstate EXCEPT ![CellAt(sidx)] = "pending"]
    /\ IF sidx + 1 = Height * Width
       THEN spc' = "join" /\ sidx' = 0
       ELSE spc' = "start" /\ sidx' = sidx + 1
    /\ UNCHANGED <<notPool, simVars, lockOf, tpc, tcell, ti, tstate, tcount, output, sresult>>

\* a started thread begins step_cell, in whatever order the threads are scheduled
ThreadRun(k) ==
    /\ spc \in {"start", "join"}
    /\ tpc[k] = "idle"
    /\ \E c \in Cells :
        /\ fstate[c] = "pending"
        /\ fstate' = [fstate EXCEPT ![c] = "running"]
        /\ tcell' = [tcell EXCEPT ![k] = c]
    /\ ti' = [ti EXCEPT ![k] = 0]
    /\ tcount' = [tcount EXCEPT ![k] = 0]
    /\ tpc' = [tpc EXCEPT ![k] = "get"]
    /\ UNCHANGED <<notPool, simVars, lockOf, tstate, spc, sidx, output, sresult>>

\* for thread in threads: thread.join(), then return next_grid; join returns
\* when the thread has ended, by return or by exception
ThreadJoin ==
    /\ spc = "join"
    /\ fstate[CellAt(sidx)] \in {"finished", "exception"}
    /\ sidx' = sidx + 1
    /\ spc' = IF sidx + 1 = Height * Width THEN "joined" ELSE "join"
    /\ sresult' = IF sidx + 1 = Height * Width THEN "next_grid" ELSE sresult
    /\ UNCHANGED <<notPool, simVars, lockOf, fstate, tpc, tcell, ti, tstate, tcount, output>>

NextThreaded ==
    \/ ThreadStart
    \/ \E k \in PoolThreads : ThreadRun(k)
    \/ ThreadJoin

\* the three simulations of one generation, side by side
NextSimulate ==
    \/ NextThreaded
    \/ NextPool
    \/ NextPipeline

(***************************************************************************)
(* item_61: the guessing game over a line protocol                         *)
(***************************************************************************)

\* widest range of a round is lower..lower + MaxSpan (1..5 and 10..15 in run_client)
MaxSpan == 1
\* request_numbers(count) (5 in run_client)
NumRequests == 2
\* length of the pseudo-random stream that random.seed fixes, read cyclically
RandLen == 2

\* an optional value: None, or a value
Nothing == <<>>
Just(v) == <<v>>

Digits == <<"0", "1", "2", "3", "4", "5", "6", "7", "8", "9">>

\* format(guess) and the f-string formatting of lower and upper: decimal digits
RECURSIVE FormatNat(_)
FormatNat(n) == IF n < 10 THEN <<Digits[n + 1]>> ELSE FormatNat(n \div 10) \o <<Digits[(n % 10) + 1]>>

Format(n) == IF n < 0 THEN <<"-">> \o FormatNat(0 - n) ELSE FormatNat(n)

\* int(parts[i]) and int(data)
RECURSIVE ParseNat(_)
ParseNat(d) ==
    IF d = <<>> THEN 0
    ELSE ParseNat(SubSeq(d, 1, Len(d) - 1)) * 10 + (CHOOSE v \in 0..9 : Digits[v + 1] = d[Len(d)])

ParseInt(d) == IF d[1] = "-" THEN 0 - ParseNat(Tail(d)) ELSE ParseNat(d)

Abs(n) == IF n < 0 THEN 0 - n ELSE n

\* the names UNSURE, CORRECT, WARMER and COLDER that AsyncClient and
\* AsyncSession read as globals: the module assigns none of them
AssignedDecisionNames == {}

\* rounds whose secret need not lie between lower and upper
RoundChoicesAnySecret ==
    {r \in [lower : {1, 10}, upper : 1..(10 + MaxSpan), secret : 1..(10 + MaxSpan)] :
        r.upper - r.lower \in 0..MaxSpan}

\* the two rounds of run_client / run_async_client
RoundChoices ==
    {r \in [lower : {1, 10}, upper : 1..(10 + MaxSpan), secret : 1..(10 + MaxSpan)] :
        /\ r.upper - r.lower \in 0..MaxSpan
        /\ r.secret \in r.lower..r.upper}

IdleGame ==
    /\ gimpl = None
    /\ rand = [i \in 0..(RandLen - 1) |-> 0]
    /\ rpos = 0
    /\ sessions = <<>>
    /\ lower = Nothing
    /\ upper = Nothing
    /\ secret = Nothing
    /\ guesses = <<>>
    /\ srvpc = "idle"
    /\ c2s = <<>>
    /\ s2c = <<>>
    /\ csecret = Nothing
    /\ last_distance = Nothing
    /\ cpc = "idle"
    /\ csess = 1
    /\ cleft = 0
    /\ cnumber = 0
    /\ cexc = None
    /\ results = <<>>
    /\ first_outcome = [exception |-> None, results |-> <<>>]

\* a fresh connection: Session.__init__ / Client.__init__, empty streams
FreshConnection ==
    /\ lower = Nothing
    /\ upper = Nothing
    /\ secret = Nothing
    /\ guesses = <<>>
    /\ srvpc = "receive"
    /\ c2s = <<>>
    /\ s2c = <<>>
    /\ csecret = Nothing
    /\ last_distance = Nothing
    /\ cpc = "enter"
    /\ csess = 1
    /\ cleft = 0
    /\ cnumber = 0
    /\ cexc = None
    /\ results = <<>>

\* random.seed(1234) fixes the stream; the threaded pair runs first
InitGame ==
    /\ gimpl = "threaded"
    /\ rand \in [0..(RandLen - 1) -> 0..MaxSpan]
    /\ rpos = 0
    /\ sessions \in [1..2 -> RoundChoices]
    /\ FreshConnection
    /\ first_outcome = [exception |-> None, results |-> <<>>]

\* ConnectionBase.send / AsyncConnectionBase.send: one line on the stream
Send(stream, parts) == Append(stream, parts)

(* Client / AsyncClient *)

\* session(lower, upper, secret).__enter__: self.secret = secret; send PARAMS
ClientEnter ==
    /\ cpc = "enter"
    /\ csecret' = Just(sessions[csess].secret)
    /\ c2s' = Send(c2s, <<"PARAMS", Format(sessions[csess].lower), Format(sessions[csess].upper)>>)
    /\ cleft' = NumRequests
    /\ cpc' = "request"
    /\ UNCHANGED <<notGame, gimpl, rand, rpos, sessions, lower, upper, secret, guesses, srvpc, s2c,
                   last_distance, csess, cnumber, cexc, results, first_outcome>>

\* request_numbers: for _ in range(count): self.send('NUMBER')
ClientRequest ==
    /\ cpc = "request"
    /\ IF cleft = 0
       THEN cpc' = "exit" /\ UNCHANGED <<c2s, cleft>>
       ELSE /\ c2s' = Send(c2s, <<"NUMBER">>)
            /\ cleft' = cleft - 1
            /\ cpc' = "await"
    /\ UNCHANGED <<notGame, gimpl, rand, rpos, sessions, lower, upper, secret, guesses, srvpc, s2c,
                   csecret, last_distance, csess, cnumber, cexc, results, first_outcome>>

\* request_numbers: data = self.receive(); yield int(data)
ClientReceive ==
    /\ cpc = "await"
    /\ s2c # <<>>
    /\ cnumber' = ParseInt(Head(s2c)[1])
    /\ s2c' = Tail(s2c)
    /\ cpc' = "report"
    /\ UNCHANGED <<notGame, gimpl, rand, rpos, sessions, lower, upper, secret, guesses, srvpc, c2s,
                   csecret, last_distance, csess, cleft, cexc, results, first_outcome>>

\* the decision of report_outcome
Decision(new_distance) ==
    IF new_distance = 0 THEN "Correct"
    ELSE IF last_distance = Nothing THEN "Unsure"
    ELSE IF new_distance < last_distance[1] THEN "Warmer"
    ELSE IF new_distance > last_distance[1] THEN "Colder"
    ELSE "Unsure"

\* the exception AsyncClient.report_outcome ends with: NameError when it
\* reads a global name that the module does not assign
AsyncDecisionError ==
    IF {"UNSURE", "CORRECT", "WARMER", "COLDER"} \subseteq AssignedDecisionNames
    THEN None ELSE "NameError"

\* report_outcome(number), results.append((number, outcome)) and, back in
\* request_numbers, "if self.last_distance == 0: return"
ClientReport ==
    /\ cpc = "report"
    /\ LET new_distance == Abs(cnumber - csecret[1])
       IN  IF gimpl = "async" /\ AsyncDecisionError # None
           THEN /\ cexc' = AsyncDecisionError
                /\ cpc' = "exit"
                /\ UNCHANGED <<last_distance, c2s, results>>
           ELSE /\ last_distance' = Just(new_distance)
                /\ c2s' = Send(c2s, <<"REPORT", Decision(new_distance)>>)
                /\ results' = Append(results, <<cnumber, Decision(new_distance)>>)
                /\ cpc' = IF new_distance = 0 THEN "exit" ELSE "request"
                /\ UNCHANGED cexc
    /\ UNCHANGED <<notGame, gimpl, rand, rpos, sessions, lower, upper, secret, guesses, srvpc, s2c,
                   csecret, csess, cleft, cnumber, first_outcome>>

\* session(...).__exit__: finally: self._clear_state(); self.send('PARAMS 0 -1');
\* a pending exception then leaves run_client / run_async_client
ClientExit ==
    /\ cpc = "exit"
    /\ csecret' = Nothing
    /\ last_distance' = Nothing
    /\ c2s' = Send(c2s, <<"PARAMS", Format(0), Format(0 - 1)>>)
    /\ IF cexc # None
       THEN cpc' = "raised" /\ UNCHANGED csess
       ELSE IF csess = 2
            THEN cpc' = "close" /\ UNCHANGED csess
            ELSE cpc' = "enter" /\ csess' = csess + 1
    /\ UNCHANGED <<notGame, gimpl, rand, rpos, sessions, lower, upper, secret, guesses, srvpc, s2c,
                   cleft, cnumber, cexc, results, first_outcome>>

\* the connection is closed (end of "with socket.create_connection", writer.close())
\* and results is returned
ClientClose ==
    /\ cpc = "close"
    /\ c2s' = Send(c2s, <<"EOF">>)
    /\ cpc' = "returned"
    /\ UNCHANGED <<notGame, gimpl, rand, rpos, sessions, lower, upper, secret, guesses, srvpc, s2c,
                   csecret, last_distance, csess, cleft, cnumber, cexc, results, first_outcome>>

(* Session / AsyncSession *)

\* loop: command = self.receive(); PARAMS -> set_params, NUMBER -> send_number,
\* REPORT -> receive_report; EOFError ends handle_connection
ServerReceive ==
    /\ srvpc = "receive"
    /\ c2s # <<>>
    /\ c2s' = Tail(c2s)
    /\ LET parts == Head(c2s)
       IN  CASE parts[1] = "PARAMS" ->
                  /\ lower' = Just(ParseInt(parts[2]))
                  /\ upper' = Just(ParseInt(parts[3]))
                  /\ secret' = Nothing
                  /\ guesses' = <<>>
                  /\ UNCHANGED srvpc
             [] parts[1] = "NUMBER" ->
                  /\ srvpc' = "next_guess"
                  /\ UNCHANGED <<lower, upper, secret, guesses>>
             [] parts[1] = "REPORT" ->
                  IF gimpl = "async" /\ ~("CORRECT" \in AssignedDecisionNames)
                  THEN srvpc' = "raised" /\ UNCHANGED <<lower, upper, secret, guesses>>
                  ELSE /\ secret' = IF parts[2] = "Correct" THEN Just(guesses[Len(guesses)]) ELSE secret
                       /\ UNCHANGED <<lower, upper, guesses, srvpc>>
             [] OTHER ->
                  /\ srvpc' = "closed"
                  /\ UNCHANGED <<lower, upper, secret, guesses>>
    /\ UNCHANGED <<notGame, gimpl, rand, rpos, sessions, s2c, csecret, last_distance, cpc, csess,
                   cleft, cnumber, cexc, results, first_outcome>>

\* random.randint(lower, upper) on the next value of the stream
RandInt(lo, hi) == lo + (rand[rpos] % (hi - lo + 1))

\* a send_number whose next_guess returns the first random.randint it draws,
\* without "if guess not in self.guesses"
ServerSendNumberAnyGuess ==
    /\ srvpc = "next_guess"
    /\ IF secret # Nothing
       THEN /\ guesses' = Append(guesses, secret[1])
            /\ s2c' = Send(s2c, <<Format(secret[1])>>)
            /\ srvpc' = "receive"
            /\ UNCHANGED rpos
       ELSE LET guess == RandInt(lower[1], upper[1])
            IN  /\ rpos' = (rpos + 1) % RandLen
                /\ guesses' = Append(guesses, guess)
                /\ s2c' = Send(s2c, <<Format(guess)>>)
                /\ srvpc' = "receive"
    /\ UNCHANGED <<notGame, gimpl, rand, sessions, lower, upper, secret, c2s, csecret, last_distance,
                   cpc, csess, cleft, cnumber, cexc, results, first_outcome>>

\* send_number: guess = self.next_guess(); self.guesses.append(guess); self.send(format(guess)).
\* next_guess returns the secret once it is known; otherwise one step is one
\* turn of "while True: guess = random.randint(...)", which repeats when the
\* guess was made before
ServerSendNumber ==
    /\ srvpc = "next_guess"
    /\ IF secret # Nothing
       THEN /\ guesses' = Append(guesses, secret[1])
            /\ s2c' = Send(s2c, <<Format(secret[1])>>)
            /\ srvpc' = "receive"
            /\ UNCHANGED rpos
       ELSE LET guess == RandInt(lower[1], upper[1])
            IN  /\ rpos' = (rpos + 1) % RandLen
                /\ IF \E i \in 1..Len(guesses) : guesses[i] = guess
                   THEN UNCHANGED <<guesses, s2c, srvpc>>
                   ELSE /\ guesses' = Append(guesses, guess)
                        /\ s2c' = Send(s2c, <<Format(guess)>>)
                        /\ srvpc' = "receive"
    /\ UNCHANGED <<notGame, gimpl, rand, sessions, lower, upper, secret, c2s, csecret, last_distance,
                   cpc, csess, cleft, cnumber, cexc, results, first_outcome>>

\* what run_client / run_async_client hands to its caller
Outcome == [exception |-> cexc, results |-> IF cexc = None THEN results ELSE <<>>]

\* the asyncio pair is run on the same rounds with the generator seeded as before
StartAsync ==
    /\ gimpl = "threaded"
    /\ cpc = "returned"
    /\ srvpc = "closed"
    /\ first_outcome' = Outcome
    /\ gimpl' = "async"
    /\ rpos' = 0
    /\ lower' = Nothing
    /\ upper' = Nothing
    /\ secret' = Nothing
    /\ guesses' = <<>>
    /\ srvpc' = "receive"
    /\ c2s' = <<>>
    /\ s2c' = <<>>
    /\ csecret' = Nothing
    /\ last_distance' = Nothing
    /\ cpc' = "enter"
    /\ csess' = 1
    /\ cleft' = 0
    /\ cnumber' = 0
    /\ cexc' = None
    /\ results' = <<>>
    /\ UNCHANGED <<notGame, rand, sessions>>

NextGame ==
    \/ ClientEnter
    \/ ClientRequest
    \/ ClientReceive
    \/ ClientReport
    \/ ClientExit
    \/ ClientClose
    \/ ServerReceive
    \/ ServerSendNumber
    \/ StartAsync

(***************************************************************************)
(* item_62: readline, tail_file and the three mergers run_threads,         *)
(* run_tasks_mixed and run_tasks                                           *)
(***************************************************************************)

\* Number of input files (5 in setup).
NumFiles == 2
\* Number of lines each writer thread writes (10 in start_write_threads).
NumLines == 2

Files == 1..NumFiles

\* the order in which the script runs the implementations (Examples 5, 7, 10)
Impls == <<"threads", "mixed", "tasks">>

Impl == Impls[mrun]

\* The i-th line of input file f; bytes are sequences of lines, b'' is <<>>.
\* The random letters are fixed, since the runs are compared on the same files.
Line(f, i) == <<f, i>>

\* the first n lines of input file f
FileLines(f, n) == [i \in 1..n |-> Line(f, i)]

\* the lines of out that start with the path of f (confirm_merge: line.find(path) == 0)
RECURSIVE Found(_, _)
Found(out, f) ==
    IF out = <<>> THEN <<>>
    ELSE IF Head(out)[1] = f THEN <<Head(out)>> \o Found(Tail(out), f)
    ELSE Found(Tail(out), f)

IdleMerge ==
    /\ mrun = 1
    /\ mstate = "idle"
    /\ written = [f \in Files |-> 0]
    /\ hclosed = [f \in Files |-> FALSE]
    /\ tlpc = [f \in Files |-> "unstarted"]
    /\ offset = [f \in Files |-> 0]
    /\ tline = [f \in Files |-> <<>>]
    /\ moutput = <<>>
    /\ output_open = FALSE
    /\ wlock = Free
    /\ callq = <<>>
    /\ first_merged = <<>>

\* setup() followed by the start of run_threads / run_tasks_mixed / run_tasks:
\* empty files, open handles, an open empty output, one tail worker per handle
InitMerge ==
    /\ mrun = 1
    /\ mstate = "running"
    /\ written = [f \in Files |-> 0]
    /\ hclosed = [f \in Files |-> FALSE]
    /\ tlpc = [f \in Files |-> "check"]
    /\ offset = [f \in Files |-> 0]
    /\ tline = [f \in Files |-> <<>>]
    /\ moutput = <<>>
    /\ output_open = TRUE
    /\ wlock = Free
    /\ callq = <<>>
    /\ first_merged = <<>>

Live == mstate \in {"running", "ValueError"}

\* write_random_data: f.write(data.encode()); f.flush()
WriteRandomData(f) ==
    /\ mstate \in {"running", "ValueError", "merged"}
    /\ written[f] < NumLines
    /\ written' = [written EXCEPT ![f] = @ + 1]
    /\ UNCHANGED <<notMerge, mrun, mstate, hclosed, tlpc, offset, tline, moutput,
                   output_open, wlock, callq, first_merged>>

\* close_all: for handle in handles: handle.close()
CloseHandle(f) ==
    /\ mstate \in {"running", "ValueError", "merged"}
    /\ ~hclosed[f]
    /\ \A g \in Files : g < f => hclosed[g]
    /\ hclosed' = [hclosed EXCEPT ![f] = TRUE]
    /\ UNCHANGED <<notMerge, mrun, mstate, written, tlpc, offset, tline, moutput,
                   output_open, wlock, callq, first_merged>>

\* tail_file / tail_async: while not handle.closed
TailCheck(f) ==
    /\ Live
    /\ tlpc[f] = "check"
    /\ tlpc' = [tlpc EXCEPT ![f] = IF hclosed[f] THEN "done" ELSE "readline"]
    /\ UNCHANGED <<notMerge, mrun, mstate, written, hclosed, offset, tline, moutput,
                   output_open, wlock, callq, first_merged>>

\* readline: the position handle.seek(offset, 0) leaves the handle at
ReadlineSeekStart(off, length) == 0

ReadlineSeek(off, length) == off

\* handle.readline() at position pos of a file of length lines
HandleReadline(f, pos, length) ==
    IF pos < length THEN <<Line(f, pos + 1)>> ELSE <<>>

\* readline(handle) called by tail_file, or in the executor by tail_async:
\* ValueError on a closed handle, NoNewData (then sleep) at the end of the file
TailReadline(f) ==
    /\ Live
    /\ tlpc[f] = "readline"
    /\ IF hclosed[f]
       THEN /\ tlpc' = [tlpc EXCEPT ![f] = "crashed"]
            /\ UNCHANGED <<offset, tline>>
       ELSE IF written[f] = offset[f]
       THEN /\ tlpc' = [tlpc EXCEPT ![f] = "check"]
            /\ UNCHANGED <<offset, tline>>
       ELSE LET pos == ReadlineSeek(offset[f], written[f])
                line == HandleReadline(f, pos, written[f])
            IN /\ tline' = [tline EXCEPT ![f] = line]
               /\ offset' = [offset EXCEPT ![f] = pos + Len(line)]
               /\ tlpc' = [tlpc EXCEPT ![f] = "write"]
    /\ UNCHANGED <<notMerge, mrun, mstate, written, hclosed, moutput, output_open,
                   wlock, callq, first_merged>>

\* run_threads.write: with lock
WriteLock(f) ==
    /\ Live /\ Impl = "threads"
    /\ tlpc[f] = "write"
    /\ wlock = Free
    /\ wlock' = f
    /\ tlpc' = [tlpc EXCEPT ![f] = "locked"]
    /\ UNCHANGED <<notMerge, mrun, mstate, written, hclosed, offset, tline, moutput,
                   output_open, callq, first_merged>>

\* run_threads.write: output.write(data) and the release of the lock
WriteLocked(f) ==
    /\ Live /\ Impl = "threads"
    /\ tlpc[f] = "locked"
    /\ moutput' = moutput \o tline[f]
    /\ wlock' = Free
    /\ tlpc' = [tlpc EXCEPT ![f] = "check"]
    /\ UNCHANGED <<notMerge, mrun, mstate, written, hclosed, offset, tline,
                   output_open, callq, first_merged>>

\* run_tasks_mixed.write: run_coroutine_threadsafe(write_async(data), loop)
WriteSchedule(f) ==
    /\ Live /\ Impl = "mixed"
    /\ tlpc[f] = "write"
    /\ callq' = Append(callq, f)
    /\ tlpc' = [tlpc EXCEPT ![f] = "scheduled"]
    /\ UNCHANGED <<notMerge, mrun, mstate, written, hclosed, offset, tline, moutput,
                   output_open, wlock, first_merged>>

\* the event loop runs write_async(data); future.result() returns in the worker,
\* or raises once the output is closed
LoopWrite ==
    /\ Live /\ Impl = "mixed"
    /\ callq # <<>>
    /\ LET f == Head(callq)
       IN IF output_open
          THEN /\ moutput' = moutput \o tline[f]
               /\ tlpc' = [tlpc EXCEPT ![f] = "check"]
          ELSE /\ tlpc' = [tlpc EXCEPT ![f] = "crashed"]
               /\ UNCHANGED moutput
    /\ callq' = Tail(callq)
    /\ UNCHANGED <<notMerge, mrun, mstate, written, hclosed, offset, tline,
                   output_open, wlock, first_merged>>

\* tail_async with the await left out: the coroutine write_func(line) never runs
WriteAsyncNotAwaited(f) ==
    /\ Live /\ Impl = "tasks"
    /\ tlpc[f] = "write"
    /\ tlpc' = [tlpc EXCEPT ![f] = "check"]
    /\ UNCHANGED <<notMerge, mrun, mstate, written, hclosed, offset, tline, moutput,
                   output_open, wlock, callq, first_merged>>

\* tail_async: await write_func(line), that is write_async of run_tasks
WriteAsync(f) ==
    /\ Live /\ Impl = "tasks"
    /\ tlpc[f] = "write"
    /\ moutput' = moutput \o tline[f]
    /\ tlpc' = [tlpc EXCEPT ![f] = "check"]
    /\ UNCHANGED <<notMerge, mrun, mstate, written, hclosed, offset, tline,
                   output_open, wlock, callq, first_merged>>

\* await asyncio.gather(*tasks) raises the ValueError of a tail worker: the with
\* block closes the output and asyncio.run cancels the tasks that remain
GatherRaises ==
    /\ mstate = "running" /\ Impl \in {"mixed", "tasks"}
    /\ \E f \in Files : tlpc[f] = "crashed"
    /\ mstate' = "ValueError"
    /\ output_open' = FALSE
    /\ tlpc' = [f \in Files |->
                  IF Impl = "tasks" /\ tlpc[f] \notin {"done", "crashed"}
                  THEN "cancelled" ELSE tlpc[f]]
    /\ UNCHANGED <<notMerge, mrun, written, hclosed, offset, tline, moutput, wlock,
                   callq, first_merged>>

\* thread.join() of every thread (a thread that died of ValueError has ended
\* too), or gather returning; the with block closes the output
RunReturns ==
    /\ mstate = "running"
    /\ \A f \in Files :
         tlpc[f] \in (IF Impl = "threads" THEN {"done", "crashed"} ELSE {"done"})
    /\ mstate' = "merged"
    /\ output_open' = FALSE
    /\ UNCHANGED <<notMerge, mrun, written, hclosed, tlpc, offset, tline, moutput,
                   wlock, callq, first_merged>>

\* confirm_merge(input_paths, output_path)
ConfirmMerge ==
    /\ mstate = "merged"
    /\ mstate' = IF \A f \in Files : FileLines(f, written[f]) = Found(moutput, f)
                 THEN "confirmed" ELSE "AssertionError"
    /\ UNCHANGED <<notMerge, mrun, written, hclosed, tlpc, offset, tline, moutput,
                   output_open, wlock, callq, first_merged>>

\* tmpdir.cleanup() and the setup() and start of the next implementation
NextRun ==
    /\ mstate = "confirmed"
    /\ mrun < Len(Impls)
    /\ mrun' = mrun + 1
    /\ first_merged' = IF mrun = 1 THEN moutput ELSE first_merged
    /\ mstate' = "running"
    /\ written' = [f \in Files |-> 0]
    /\ hclosed' = [f \in Files |-> FALSE]
    /\ tlpc' = [f \in Files |-> "check"]
    /\ offset' = [f \in Files |-> 0]
    /\ tline' = [f \in Files |-> <<>>]
    /\ moutput' = <<>>
    /\ output_open' = TRUE
    /\ wlock' = Free
    /\ callq' = <<>>
    /\ UNCHANGED notMerge

NextMerge ==
    \/ \E f \in Files : WriteRandomData(f)
    \/ \E f \in Files : CloseHandle(f)
    \/ \E f \in Files : TailCheck(f)
    \/ \E f \in Files : TailReadline(f)
    \/ \E f \in Files : WriteLock(f)
    \/ \E f \in Files : WriteLocked(f)
    \/ \E f \in Files : WriteSchedule(f)
    \/ LoopWrite
    \/ \E f \in Files : WriteAsync(f)
    \/ GatherRaises
    \/ RunReturns
    \/ ConfirmMerge
    \/ NextRun

(***************************************************************************)
(* The single-threaded examples.  script names the example that runs.      *)
(***************************************************************************)

\* item_73: the number of Book objects the script creates
MaxBooks == 3
\* item_73: due dates are 1..MaxDate ('2019-05-30' .. '2019-06-12')
MaxDate == 3

\* heapq._siftdown(heap, 0, pos) with Book.__lt__ comparing due_date: the item
\* at pos moves towards the root while it is less than its parent (positions
\* count from 0)
RECURSIVE SiftDown(_, _, _)
SiftDown(due, h, pos) ==
    IF pos > 0 /\ due[h[pos + 1]] < due[h[((pos - 1) \div 2) + 1]]
    THEN SiftDown(due, [h EXCEPT ![pos + 1] = h[((pos - 1) \div 2) + 1],
                                 ![((pos - 1) \div 2) + 1] = h[pos + 1]],
                  (pos - 1) \div 2)
    ELSE h

\* heapq._siftup(heap, pos): the item at pos moves down to a leaf along the
\* smaller children and is then sifted back towards the root
RECURSIVE SiftUp(_, _, _)
SiftUp(due, h, pos) ==
    LET left == 2 * pos + 1
        right == left + 1
        smaller == IF right < Len(h) /\ ~(due[h[left + 1]] < due[h[right + 1]])
                   THEN right ELSE left
    IN IF left < Len(h)
       THEN SiftUp(due, [h EXCEPT ![pos + 1] = h[smaller + 1],
                                  ![smaller + 1] = h[pos + 1]], smaller)
       ELSE SiftDown(due, h, pos)

\* heapq.heappush(queue, book)
HeapPush(heap, book, due) == SiftDown(due, Append(heap, book), Len(heap))

\* heapq.heappop(queue): the last item replaces the root and is sifted
HeapPop(heap) ==
    IF Len(heap) = 1 THEN <<>>
    ELSE SiftUp(book_due,
                [i \in 1..(Len(heap) - 1) |-> IF i = 1 THEN heap[Len(heap)] ELSE heap[i]], 0)

\* next_overdue_book: while queue: if book.returned: heappop(queue); continue
RECURSIVE PopReturned(_)
PopReturned(heap) ==
    IF heap # <<>> /\ heap[1] \in book_returned THEN PopReturned(HeapPop(heap)) ELSE heap

\* item_62 keeps more handles open; the number of files a script has open at once
MaxOpenFiles == 2

\* scripts whose start, file writes and exit are followed
HarnessScripts == {"item_54", "item_58", "item_62", "item_65", "item_66"}

\* item_65.py has none of the atexit.register calls
HasHarness(s) == s # "item_65"

\* the callbacks registered in the other order
RegisteredCloseFirst == <<"close_open_files", "chdir", "TEST_DIR.cleanup">>

\* atexit.register(TEST_DIR.cleanup); atexit.register(lambda: os.chdir(OLD_CWD));
\* atexit.register(close_open_files), in the order of registration
Registered == <<"TEST_DIR.cleanup", "chdir", "close_open_files">>

\* the statements at the top of a script: TEST_DIR = TemporaryDirectory(),
\* OLD_CWD = os.getcwd(), os.chdir(TEST_DIR.name) and the three registrations
Harness ==
    /\ script \in HarnessScripts
    /\ hpc = "start"
    /\ hpc' = "body"
    /\ IF HasHarness(script)
       THEN /\ test_dir' = TRUE
            /\ atexit_funcs' = Registered
            /\ cwd' = "TEST_DIR"
       ELSE UNCHANGED <<test_dir, atexit_funcs, cwd>>
    /\ UNCHANGED <<notScript, script, hookVars, heapVars, pickleVars, procVars, attrVars, written_in, open_files, outcome>>

\* open(path, 'w') / open(path, 'wb'): a relative path ('my_output.txt' in
\* item_66, 'random_data.json' in item_65) is created in the working directory;
\* item_62 writes in the TemporaryDirectory() of its own setup()
OpenForWrite ==
    /\ script \in {"item_62", "item_65", "item_66"}
    /\ hpc = "body"
    /\ open_files < MaxOpenFiles
    /\ open_files' = open_files + 1
    /\ written_in' = written_in \cup {IF script = "item_62" THEN "tmpdir" ELSE cwd}
    /\ UNCHANGED <<notScript, script, hookVars, heapVars, pickleVars, procVars, attrVars, hpc, cwd, test_dir, atexit_funcs, outcome>>

\* the end of a with block, or handle.close()
CloseFile ==
    /\ script \in HarnessScripts
    /\ hpc = "body"
    /\ open_files > 0
    /\ open_files' = open_files - 1
    /\ UNCHANGED <<notScript, script, hookVars, heapVars, pickleVars, procVars, attrVars, hpc, cwd, test_dir, written_in, atexit_funcs,
                   outcome>>

\* a process that ends on an uncaught error without running the exit callbacks
FinishWithoutExitFuncs(how) ==
    /\ script \in HarnessScripts
    /\ hpc = "body"
    /\ hpc' = IF how = "uncaught error" THEN "exited" ELSE "exiting"
    /\ outcome' = how
    /\ UNCHANGED <<notScript, script, hookVars, heapVars, pickleVars, procVars, attrVars, cwd, test_dir, written_in, open_files,
                   atexit_funcs>>

\* the script reaches its end, having logged a caught error or not, or an
\* uncaught error ends it (assert False at item_58.py 243-247): the interpreter
\* shuts down and runs the exit callbacks
Finish(how) ==
    /\ script \in HarnessScripts
    /\ hpc = "body"
    /\ hpc' = "exiting"
    /\ outcome' = how
    /\ UNCHANGED <<notScript, script, hookVars, heapVars, pickleVars, procVars, attrVars, cwd, test_dir, written_in, open_files,
                   atexit_funcs>>

\* atexit runs the callback registered last among those left: close_open_files
\* closes every io.IOBase object, the lambda changes the directory back,
\* TEST_DIR.cleanup deletes the directory
RunExitFunc ==
    /\ hpc = "exiting"
    /\ IF atexit_funcs = <<>>
       THEN /\ hpc' = "exited"
            /\ UNCHANGED <<cwd, test_dir, open_files, atexit_funcs>>
       ELSE LET func == atexit_funcs[Len(atexit_funcs)]
            IN /\ atexit_funcs' = SubSeq(atexit_funcs, 1, Len(atexit_funcs) - 1)
               /\ open_files' = IF func = "close_open_files" THEN 0 ELSE open_files
               /\ cwd' = IF func = "chdir" THEN "OLD_CWD" ELSE cwd
               /\ test_dir' = IF func = "TEST_DIR.cleanup" THEN FALSE ELSE test_dir
               /\ UNCHANGED hpc
    /\ UNCHANGED <<notScript, script, hookVars, heapVars, pickleVars, procVars, attrVars, written_in, outcome>>

\* item_68: how far the attributes of the saved object are changed
MaxLevel == 1

\* GameState(**kwargs) for the class bound to GameState, named by the number of
\* the example that defines it (1, 5, 9, 14, 16; 0 after del GameState)
Construct(cls, kwargs) ==
    LET defaults == CASE cls = 1 -> [level |-> 0, lives |-> 4]
                      [] cls = 5 -> [level |-> 0, lives |-> 4, points |-> 0]
                      [] cls = 9 -> [level |-> 0, lives |-> 4, points |-> 0]
                      [] cls = 14 -> [level |-> 0, lives |-> 4, points |-> 0, magic |-> 5]
                      [] OTHER -> [level |-> 0, points |-> 0, magic |-> 5]
        params == IF cls \in {1, 5} THEN {} ELSE DOMAIN defaults
    IN IF cls = 0 THEN [raise |-> "NameError"]
       ELSE IF ~(DOMAIN kwargs \subseteq params) THEN [raise |-> "TypeError"]
       ELSE [class |-> cls,
             dict |-> [f \in DOMAIN defaults |->
                          IF f \in DOMAIN kwargs THEN kwargs[f] ELSE defaults[f]]]

\* The definitions of the script in order: class GameState (Examples 1, 5, 9,
\* 14, 16), pickle_game_state / unpickle_game_state (10-11, 18-19),
\* copyreg.pickle(GameState, pickle_game_state) (12, 20),
\* copyreg.dispatch_table.clear() (21) and del GameState (22)
NextExample ==
    /\ script = "item_68"
    /\ example < 22
    /\ LET next == CASE example = 0 -> 1 [] example = 1 -> 5 [] example = 5 -> 9
                     [] example = 9 -> 11 [] example = 11 -> 12 [] example = 12 -> 14
                     [] example = 14 -> 16 [] example = 16 -> 19 [] example = 19 -> 20
                     [] example = 20 -> 21 [] OTHER -> 22
       IN /\ example' = next
          /\ GameState' = IF next \in {1, 5, 9, 14, 16} THEN next
                          ELSE IF next = 22 THEN 0 ELSE GameState
          /\ pickler' = IF next = 11 THEN 10 ELSE IF next = 19 THEN 18 ELSE pickler
          /\ unpickler' = IF next \in {11, 19} THEN next ELSE unpickler
          /\ dispatch_table' =
                IF next \in {12, 20}
                THEN [c \in DOMAIN dispatch_table \cup {GameState} |->
                         IF c = GameState THEN pickler ELSE dispatch_table[c]]
                ELSE IF next = 21 THEN <<>> ELSE dispatch_table
    /\ state_after' = [call |-> None]
    /\ UNCHANGED <<notScript, script, hookVars, heapVars, harnessVars, procVars, attrVars, game_state, serialized>>

\* state = GameState(); state.level += 1; state.lives -= 1; state.points += 1000
NewState(played) ==
    /\ script = "item_68"
    /\ GameState # 0
    /\ game_state' = [class |-> GameState,
                 dict |-> [f \in DOMAIN Construct(GameState, <<>>).dict |->
                             Construct(GameState, <<>>).dict[f] +
                             CASE f = "level" -> played
                               [] f = "lives" -> 0 - played
                               [] f = "points" -> 1000 * played
                               [] OTHER -> 0]]
    /\ state_after' = [call |-> None]
    /\ UNCHANGED <<notScript, script, hookVars, heapVars, harnessVars, procVars, attrVars, example, GameState, pickler,
                   unpickler, dispatch_table, serialized>>

\* serialized = pickle.dumps(state): through the hook copyreg holds for the class
\* of state (pickle_game_state of Example 10, or of Example 18, which sets
\* kwargs['version'] in state.__dict__ itself), else by the name of the class
Dumps ==
    /\ script = "item_68"
    /\ game_state # [call |-> None]
    /\ LET hook == IF game_state.class \in DOMAIN dispatch_table
                   THEN dispatch_table[game_state.class] ELSE 0
           kwargs == IF hook = 18 THEN ("version" :> 2) @@ game_state.dict ELSE game_state.dict
       IN /\ game_state' = [game_state EXCEPT !.dict = kwargs]
          /\ IF hook # 0
             THEN /\ serialized' = [reduce |-> "unpickle_game_state", kwargs |-> kwargs]
                  /\ state_after' = [call |-> None]
             ELSE IF game_state.class = GameState
             THEN /\ serialized' = [class |-> "GameState", dict |-> game_state.dict]
                  /\ state_after' = [call |-> None]
             ELSE /\ serialized' = serialized
                  /\ state_after' = [call |-> "dumps", raise |-> "PicklingError"]
    /\ UNCHANGED <<notScript, script, hookVars, heapVars, harnessVars, procVars, attrVars, example, GameState, pickler,
                   unpickler, dispatch_table>>

\* unpickle_game_state of Example 11, which knows no version
UnpickleGameStateOfExample11(kwargs) == Construct(GameState, kwargs)

\* unpickle_game_state(kwargs) as currently defined (Example 11 or Example 19)
UnpickleGameState(kwargs) ==
    IF unpickler = 11 THEN Construct(GameState, kwargs)
    ELSE LET version == IF "version" \in DOMAIN kwargs THEN kwargs.version ELSE 1
             popped == [f \in DOMAIN kwargs \ {"version"} |-> kwargs[f]]
         IN IF version # 1 THEN Construct(GameState, popped)
            ELSE IF "lives" \notin DOMAIN popped THEN [raise |-> "KeyError"]
            ELSE Construct(GameState, [f \in DOMAIN popped \ {"lives"} |-> popped[f]])

\* pickle.loads that builds the object from whatever class the module still has
LoadsIntoBetterGameState(bytes) ==
    IF "class" \in DOMAIN bytes
    THEN [class |-> IF GameState = 0 THEN 21 ELSE GameState, dict |-> bytes.dict]
    ELSE [class |-> 21, dict |-> [f \in DOMAIN bytes.kwargs \ {"version", "lives"} |->
                                     bytes.kwargs[f]]]

\* pickle.loads(serialized): bytes that name the class look GameState up in the
\* module and give the new object the saved __dict__; bytes that name
\* unpickle_game_state call its current definition with the saved kwargs
Loads(bytes) ==
    IF "class" \in DOMAIN bytes
    THEN IF GameState = 0 THEN [raise |-> "AttributeError"]
         ELSE [class |-> GameState, dict |-> bytes.dict]
    ELSE UnpickleGameState(bytes.kwargs)

\* state_after = pickle.loads(serialized)
LoadState ==
    /\ script = "item_68"
    /\ serialized # [call |-> None]
    /\ state_after' = Loads(serialized)
    /\ UNCHANGED <<notScript, script, hookVars, heapVars, harnessVars, procVars, attrVars, example, GameState, pickler,
                   unpickler, dispatch_table, game_state, serialized>>

\* item_52, Example 11.  The child sleep ends by itself with status 0, or is
\* ended by the SIGTERM sent to it (status -15)
ChildExit ==
    /\ script = "item_52"
    /\ child = "running"
    /\ child' = "exited"
    /\ exit_status' = IF sigterm THEN -15 ELSE 0
    /\ UNCHANGED <<notScript, script, hookVars, heapVars, harnessVars, pickleVars, attrVars, sigterm, returncode,
                   procpc, polled>>

\* the handler without proc.wait(): after terminate() the status is read at once
ProcWaitNotCalled ==
    /\ script = "item_52"
    /\ procpc = "wait"
    /\ procpc' = "poll"
    /\ UNCHANGED <<notScript, script, hookVars, heapVars, harnessVars, pickleVars, attrVars, child, exit_status,
                   sigterm, returncode, polled>>

\* proc.wait(): blocks until the child has exited and records its status
ProcWait ==
    /\ script = "item_52"
    /\ procpc = "wait"
    /\ child = "exited"
    /\ returncode' = Just(exit_status)
    /\ procpc' = "poll"
    /\ UNCHANGED <<notScript, script, hookVars, heapVars, harnessVars, pickleVars, attrVars, child, exit_status,
                   sigterm, polled>>

\* the other statements of the parent, none of which blocks:
\* proc.communicate(timeout=0.1) returns when the child has exited and raises
\* TimeoutExpired when it has not; proc.terminate() sends SIGTERM unless a poll
\* finds the child exited; proc.poll() reads the status without waiting
ProcStep ==
    /\ script = "item_52"
    /\ procpc \in {"communicate", "terminate", "poll"}
    /\ LET status == IF returncode # Nothing THEN returncode
                     ELSE IF child = "exited" THEN Just(exit_status) ELSE Nothing
       IN /\ procpc' = CASE procpc = "communicate" ->
                                IF child = "exited" THEN "poll" ELSE "terminate"
                         [] procpc = "terminate" -> "wait"
                         [] OTHER -> "done"
          /\ returncode' = status
          /\ sigterm' = (sigterm \/ (procpc = "terminate" /\ status = Nothing))
          /\ polled' = IF procpc = "poll" THEN status ELSE polled
    /\ UNCHANGED <<notScript, script, hookVars, heapVars, harnessVars, pickleVars, attrVars, child,
                   exit_status>>

\* item_44: the resistances assigned are 1..MaxOhms (1e3, 2e3)
MaxOhms == 2
\* item_46: the number of Exam instances (first_exam, second_exam)
NumExams == 2

\* the ohms setter of Resistor's plain attribute, which always stores
SetOhmsOfResistor(ohms) ==
    /\ script = "item_44"
    /\ r_ohms' = Just(ohms)
    /\ r_call' = [set |-> ohms, return |-> None]
    /\ UNCHANGED <<notScript, script, hookVars, heapVars, harnessVars, pickleVars, procVars,
                   grade_values, grade_call>>

\* FixedResistance: self.ohms = ohms, in Resistor.__init__ for the first time
\* (r4 = FixedResistance(1e3)) and later (r4.ohms = 2e3), runs the ohms setter;
\* r_ohms is the attribute _ohms, Nothing while the object has none
SetOhms(ohms) ==
    /\ script = "item_44"
    /\ IF r_ohms # Nothing
       THEN /\ r_call' = [set |-> ohms, raise |-> "AttributeError"]
            /\ UNCHANGED r_ohms
       ELSE /\ r_ohms' = Just(ohms)
            /\ r_call' = [set |-> ohms, return |-> None]
    /\ UNCHANGED <<notScript, script, hookVars, heapVars, harnessVars, pickleVars, procVars,
                   grade_values, grade_call>>

\* Grade.__get__(instance, instance_type): self._values.get(instance, 0)
GradeGet(values, attr, exam) ==
    IF exam \in DOMAIN values[attr] THEN values[attr][exam] ELSE 0

\* the Grade of Example 9, which keeps one value for all instances
SetGradeOfExample9(attr, exam, value) ==
    /\ script = "item_46"
    /\ grade_call' = [attr |-> attr, exam |-> exam, value |-> value]
    /\ grade_values' = [grade_values EXCEPT ![attr] = [e \in 1..NumExams |-> value]]
    /\ UNCHANGED <<notScript, script, hookVars, heapVars, harnessVars, pickleVars, procVars,
                   r_ohms, r_call>>

\* exam.attr = value, that is Grade.__set__(instance, value) of the Grade that
\* is the class attribute attr of Exam
SetGrade(attr, exam, value) ==
    /\ script = "item_46"
    /\ grade_call' = [attr |-> attr, exam |-> exam, value |-> value]
    /\ IF ~(0 <= value /\ value <= 100)
       THEN UNCHANGED grade_values
       ELSE grade_values' =
              [grade_values EXCEPT ![attr] =
                  [e \in DOMAIN grade_values[attr] \cup {exam} |->
                      IF e = exam THEN value ELSE grade_values[attr][e]]]
    /\ UNCHANGED <<notScript, script, hookVars, heapVars, harnessVars, pickleVars, procVars,
                   r_ohms, r_call>>

(***************************************************************************)
(* item_48: validating subclasses when the class statement runs            *)
(***************************************************************************)

\* the largest sides a class statement declares
MaxSides == 4

\* the roots: Polygon(metaclass=ValidatePolygon) and BetterPolygon, both with
\* sides = None
Roots == {"Polygon", "BetterPolygon"}

\* ValidatePolygon.__new__(meta, name, bases, class_dict): nothing but
\* return super().__new__(meta, name, bases, class_dict)
ValidatePolygon(base, sides) == [return |-> [base |-> base, sides |-> sides]]

\* type.__new__ calling BetterPolygon.__init_subclass__(cls)
InitSubclass(base, sides) ==
    IF sides = Nothing THEN [raise |-> "ValueError"]
    ELSE IF sides[1] < 3 THEN [raise |-> "ValueError"]
    ELSE [return |-> [base |-> base, sides |-> sides]]

\* class Name(base): sides = ...   (sides = Nothing: the body leaves sides out)
\* the name is bound only when the class statement returns
ClassStatement(base, sides) ==
    /\ script = "item_48"
    /\ class_call' = IF base = "Polygon" THEN ValidatePolygon(base, sides)
                     ELSE InitSubclass(base, sides)
    /\ classes' = IF "return" \in DOMAIN class_call'
                  THEN classes \cup {class_call'.return} ELSE classes
    /\ UNCHANGED <<notScript, script, plainVars, recordVars, logVars, instances>>

\* greenie = GreenPentagon(): calling a class that a class statement has bound
Instantiate(cls) ==
    /\ script = "item_48"
    /\ cls \in classes
    /\ instances' = instances \cup {cls}
    /\ UNCHANGED <<notScript, script, plainVars, recordVars, logVars, classes, class_call>>

(***************************************************************************)
(* item_47: BrokenDictionaryRecord.__getattribute__                        *)
(***************************************************************************)

\* the attribute names an access uses
AttrNames == {"foo", "bar", "_data"}

\* data = BrokenDictionaryRecord({'foo': 3})
NewRecord ==
    /\ script = "item_47"
    /\ record_data' = [foo |-> 3]
    /\ attr_call' = [call |-> None]
    /\ getattribute_calls' = 0
    /\ UNCHANGED <<notScript, script, plainVars, classVars, logVars>>

\* data.<name>: BrokenDictionaryRecord.__getattribute__(self, name) runs once;
\* super().__getattribute__('_data') is object's lookup, which does not come
\* back to the hook, and data_dict[name] raises KeyError for a missing key
GetAttribute(name) ==
    /\ script = "item_47"
    /\ record_data # Nothing
    /\ getattribute_calls' = 1
    /\ attr_call' = IF name \in DOMAIN record_data
                    THEN [name |-> name, return |-> record_data[name]]
                    ELSE [name |-> name, raise |-> "KeyError"]
    /\ UNCHANGED <<notScript, script, plainVars, classVars, logVars, record_data>>

(***************************************************************************)
(* item_66: log_level(level, name)                                         *)
(***************************************************************************)

NOTSET == 0
DEBUG == 10
WARNING == 30

\* the root logger and the loggers the script names
Loggers == {"root", "my-log", "other-log"}

\* logger.getEffectiveLevel(): the logger's own level unless it is NOTSET, then
\* its parent's, which for these names is the root
EffectiveLevel(levels, name) ==
    IF levels[name] # NOTSET THEN levels[name] ELSE levels["root"]

\* debug_logging(level) of Example 5 in the place of log_level: the logger is
\* logging.getLogger(), the root, whatever the name
LogLevelEnterRoot(level, name) ==
    /\ script = "item_66"
    /\ hpc = "body"
    /\ ~ll_inside
    /\ ll_inside' = TRUE
    /\ ll_name' = name
    /\ old_level' = EffectiveLevel(logger_level, "root")
    /\ logger_level' = [logger_level EXCEPT !["root"] = level]
    /\ levels_at_enter' = logger_level
    /\ UNCHANGED <<notScript, script, plainVars, classVars, recordVars>>

\* with log_level(level, name) as logger: the generator up to its yield
LogLevelEnter(level, name) ==
    /\ script = "item_66"
    /\ hpc = "body"
    /\ ~ll_inside
    /\ ll_inside' = TRUE
    /\ ll_name' = name
    /\ old_level' = EffectiveLevel(logger_level, name)
    /\ logger_level' = [logger_level EXCEPT ![name] = level]
    /\ levels_at_enter' = logger_level
    /\ UNCHANGED <<notScript, script, plainVars, classVars, recordVars>>

\* the end of the with block, by return or by exception: finally:
\* logger.setLevel(old_level)
LogLevelExit ==
    /\ script = "item_66"
    /\ ll_inside
    /\ ll_inside' = FALSE
    /\ logger_level' = [logger_level EXCEPT ![ll_name] = old_level]
    /\ UNCHANGED <<notScript, script, plainVars, classVars, recordVars, ll_name, old_level,
                   levels_at_enter>>

\* The state in which script s starts: the process is in the directory it was
\* launched from with nothing registered; item_73 starts from queue = []
ScriptStart(s) ==
    /\ script = s
    /\ hpc = "start"
    /\ cwd = "OLD_CWD"
    /\ test_dir = FALSE
    /\ written_in = {}
    /\ open_files = 0
    /\ atexit_funcs = <<>>
    /\ outcome = None
    /\ book_due = <<>>
    /\ book_returned = {}
    /\ hq = <<>>
    /\ hnow = 0
    /\ hresult = [call |-> None]
    /\ example = 0
    /\ GameState = 0
    /\ pickler = 0
    /\ unpickler = 0
    /\ dispatch_table = <<>>
    /\ game_state = [call |-> None]
    /\ serialized = [call |-> None]
    /\ state_after = [call |-> None]
    /\ child = "running"
    /\ exit_status = 0
    /\ sigterm = FALSE
    /\ returncode = Nothing
    /\ procpc = "communicate"
    /\ polled = Nothing
    /\ r_ohms = Nothing
    /\ r_call = [call |-> None]
    /\ grade_values = [attr \in {"math_grade", "writing_grade"} |-> <<>>]
    /\ grade_call = [call |-> None]
    /\ classes = {}
    /\ class_call = [call |-> None]
    /\ instances = {}
    /\ record_data = Nothing
    /\ attr_call = [call |-> None]
    /\ getattribute_calls = 0
    /\ logger_level = [n \in Loggers |-> IF n = "root" THEN WARNING ELSE NOTSET]
    /\ ll_inside = FALSE
    /\ ll_name = None
    /\ old_level = NOTSET
    /\ levels_at_enter = Nothing

\* no example has started
IdleScript == ScriptStart(None)

InitScript == \E s \in {"item_73", "item_68", "item_52", "item_44", "item_46", "item_48", "item_47"} \cup HarnessScripts : ScriptStart(s)

\* book = Book(title, due_date); add_book(queue, book)
AddBook(due_date) ==
    /\ script = "item_73"
    /\ Len(book_due) < MaxBooks
    /\ book_due' = Append(book_due, due_date)
    /\ hq' = HeapPush(hq, Len(book_due) + 1, Append(book_due, due_date))
    /\ hresult' = [call |-> None]
    /\ UNCHANGED <<notScript, script, hookVars, harnessVars, pickleVars, procVars, attrVars, book_returned, hnow>>

\* return_book(queue, book), book.returned = True
ReturnBook(book) ==
    /\ script = "item_73"
    /\ book \notin book_returned
    /\ book_returned' = book_returned \cup {book}
    /\ hresult' = [call |-> None]
    /\ UNCHANGED <<notScript, script, hookVars, harnessVars, pickleVars, procVars, attrVars, book_due, hq, hnow>>

\* next_overdue_book of Example 17, which does not look at book.returned
NextOverdueBookOfExample17(now) ==
    /\ script = "item_73"
    /\ hnow' = now
    /\ IF hq # <<>> /\ book_due[hq[1]] < now
       THEN hresult' = [return |-> hq[1]] /\ hq' = HeapPop(hq)
       ELSE hresult' = [raise |-> "NoOverdueBooks"] /\ hq' = hq
    /\ UNCHANGED <<notScript, script, hookVars, harnessVars, pickleVars, procVars, attrVars, book_due, book_returned>>

\* next_overdue_book(queue, now) of Example 22
NextOverdueBook(now) ==
    /\ script = "item_73"
    /\ hnow' = now
    /\ IF PopReturned(hq) # <<>> /\ book_due[PopReturned(hq)[1]] < now
       THEN /\ hresult' = [return |-> PopReturned(hq)[1]]
            /\ hq' = HeapPop(PopReturned(hq))
       ELSE /\ hresult' = [raise |-> "NoOverdueBooks"]
            /\ hq' = PopReturned(hq)
    /\ UNCHANGED <<notScript, script, hookVars, harnessVars, pickleVars, procVars, attrVars, book_due,
                   book_returned>>

NextScript ==
    \/ \E due_date \in 1..MaxDate : AddBook(due_date)
    \/ \E book \in DOMAIN book_due : ReturnBook(book)
    \/ \E now \in 1..(MaxDate + 1) : NextOverdueBook(now)
    \/ Harness
    \/ OpenForWrite
    \/ CloseFile
    \/ \E how \in {"clean", "caught error", "uncaught error"} : Finish(how)
    \/ RunExitFunc
    \/ NextExample
    \/ \E played \in 0..MaxLevel : NewState(played)
    \/ Dumps
    \/ LoadState
    \/ ChildExit
    \/ ProcWait
    \/ ProcStep
    \/ \E ohms \in 1..MaxOhms : SetOhms(ohms)
    \/ \E attr \in {"math_grade", "writing_grade"}, exam \in 1..NumExams,
          value \in {-1, 75, 82, 101} : SetGrade(attr, exam, value)
    \/ \E base \in Roots, sides \in {Nothing} \cup {Just(n) : n \in 1..MaxSides} :
          ClassStatement(base, sides)
    \/ \E cls \in classes : Instantiate(cls)
    \/ NewRecord
    \/ \E name \in AttrNames : GetAttribute(name)
    \/ \E level \in {DEBUG, WARNING + 10}, name \in Loggers \ {"root"} : LogLevelEnter(level, name)
    \/ LogLevelExit

(***************************************************************************)
(* Specifications: one per example                                         *)
(***************************************************************************)

InitSpecCounter == InitCounter /\ IdleSim /\ IdlePipe /\ IdlePool /\ IdleGame /\ IdleMerge /\ IdleScript

SpecCounter == InitSpecCounter /\ [][NextCounter]_vars

InitSpecStop == InitStop /\ IdleCounter /\ IdlePool /\ IdleGame /\ IdleMerge /\ IdleScript

SpecStop == InitSpecStop /\ [][NextStop]_vars

\* every thread that can take a step eventually takes one
FairSpecStop == SpecStop /\ WF_vars(NextStop)

InitSpecPolling == InitPolling /\ IdleCounter /\ IdlePool /\ IdleGame /\ IdleMerge /\ IdleScript

SpecPolling == InitSpecPolling /\ [][NextPolling]_vars

\* every thread that can take a step eventually takes one
FairSpecPolling == SpecPolling /\ WF_vars(NextPolling)

InitSpecPipeline == InitSimulate("pipeline") /\ IdleCounter /\ IdlePool /\ IdleGame /\ IdleMerge /\ IdleScript

SpecPipeline == InitSpecPipeline /\ [][NextPipeline]_vars

InitSpecPhased == InitSimulate("phased") /\ IdleCounter /\ IdlePool /\ IdleGame /\ IdleMerge /\ IdleScript

SpecPhased == InitSpecPhased /\ [][NextPhased]_vars

InitSpecPool == InitPool /\ IdleCounter /\ IdlePipe /\ IdleGame /\ IdleMerge /\ IdleScript

SpecPool == InitSpecPool /\ [][NextPool]_vars

InitSpecSimulate ==
    \/ InitThreaded /\ IdleCounter /\ IdlePipe /\ IdleGame /\ IdleMerge /\ IdleScript
    \/ InitSpecPool
    \/ InitSpecPipeline

SpecSimulate == InitSpecSimulate /\ [][NextSimulate]_vars

InitSpecGame == InitGame /\ IdleCounter /\ IdleSim /\ IdlePipe /\ IdlePool /\ IdleMerge /\ IdleScript

SpecGame == InitSpecGame /\ [][NextGame]_vars

InitSpecMerge == InitMerge /\ IdleCounter /\ IdleSim /\ IdlePipe /\ IdlePool /\ IdleGame /\ IdleScript

SpecMerge == InitSpecMerge /\ [][NextMerge]_vars

InitSpecScript ==
    InitScript /\ IdleCounter /\ IdleSim /\ IdlePipe /\ IdlePool /\ IdleGame /\ IdleMerge

SpecScript == InitSpecScript /\ [][NextScript]_vars

(***************************************************************************)
(* Properties                                                              *)
(***************************************************************************)

\* C1: with LockingCounter, once every worker thread has made its how_many
\* increments and has been joined, the count read by the main thread equals
\* NumThreads * how_many, whatever the interleaving.
LockingCounterTotal ==
    (counterClass = "LockingCounter" /\ mpc = "joined") => found = NumThreads * how_many

LockingCounterJoined ==
    counterClass = "LockingCounter" /\ mpc = "joined" /\ found = NumThreads * how_many

\* an item other than the sentinel is waiting in the queues of stage s, or is
\* held by a worker of stage s that has not yet put its result
StagePending(s) ==
    \/ \E i \in 1..Len(queue[s]) : queue[s][i] # SENTINEL
    \/ \E w \in Workers : w[1] = s /\ swpc[w] = "got" /\ switem[w] # SENTINEL

\* C2: while the sentinel put by close() is on a queue, every result of the
\* stages upstream of that queue has already been put on it (nothing is
\* pending upstream and the producer loop is over), and nothing but sentinels
\* follows a sentinel: the sentinel is the last item the consumer sees.
SentinelAfterResults ==
    \A q \in 2..(MaxStages + 1) :
        \A i \in 1..Len(queue[q]) :
            queue[q][i] = SENTINEL =>
                /\ ppc # "put"
                /\ \A s \in 1..(q - 1) : ~StagePending(s)
                /\ \A j \in i..Len(queue[q]) : queue[q][j] = SENTINEL

SentinelBehindAllResults ==
    /\ program = "phased"
    /\ Len(queue[3]) = Height * Width + 1
    /\ queue[3][Height * Width + 1] = SENTINEL
    /\ \A i \in 1..(Height * Width) : queue[3][i] # SENTINEL

\* C3: every stop_threads call of the example eventually returns (the main
\* thread gets past the last thread.join()), whatever the size of the pools.
StopThreadsReturns == <>(ppc = "finished")

\* C4: when count_neighbors raises for some cell in the first worker stage,
\* simulate_phased_pipeline never returns a grid to its caller.
PhasedPipelineRaises ==
    (program = "phased" /\ failing # {}) => ppc # "returned"

\* C5: when game_logic raises in a pipeline worker, simulate_pipeline never
\* returns normally.
PipelineRaises ==
    (program = "pipeline" /\ failing # {}) => ppc # "returned"

\* C6: an exception raised by the submitted function in a pool thread is
\* re-raised by result() in the thread that called simulate_pool: the call
\* ends with that exception, and simulate_pool never returns a grid when
\* step_cell raised for some cell.
PoolReraises ==
    /\ failing # {} => spc # "returned"
    /\ spc = "raised" => (sresult = OSError /\ fstate[CellAt(sidx)] = "exception")

PoolRaisedAfterResults ==
    spc = "raised" /\ sresult = OSError /\ sidx > 0 /\ fstate[CellAt(0)] = "finished"

\* the threads that are inside an access (get, set or __str__) of a LockingGrid
InGrid(g) ==
    IF g = "grid"
    THEN {k \in PoolThreads : tpc[k] = "in_get"} \cup (IF spc = "in_str" THEN {MainThread} ELSE {})
    ELSE {k \in PoolThreads : tpc[k] = "in_set"}

\* C7: a thread is inside LockingGrid.get, set or __str__ only while it holds
\* the lock of that grid, so at most one thread at a time touches a grid,
\* readers included.
LockingGridExclusive ==
    \A g \in {"grid", "next_grid"} :
        /\ Cardinality(InGrid(g)) <= 1
        /\ \A t \in InGrid(g) : lockOf[g] = t

LockingGridContended ==
    \E k, j \in PoolThreads :
        /\ tpc[k] = "in_get" /\ tpc[j] = "get" /\ lockOf["grid"] = k
        /\ ~ENABLED GetEnter(j)

\* C10: for the same rounds and the same random stream, the asyncio client and
\* server hand back the same sequence of (number, decision) pairs as the
\* threaded client and server.
AsyncSameAsThreaded ==
    (gimpl = "async" /\ cpc \in {"returned", "raised"}) => Outcome = first_outcome


\* C8: in every implementation the lines of one input file appear in the merged
\* output in the order they have in that file (each line of the file at most once
\* and before the lines that follow it), however the lines of different files
\* interleave.
MergedOrderPreserved ==
    \A i, j \in DOMAIN moutput :
        (i < j /\ moutput[i][1] = moutput[j][1]) => moutput[i][2] < moutput[j][2]

\* run_tasks_mixed has written a line of another file between two lines of a file
MergedInterleaved ==
    /\ Impl = "mixed"
    /\ \E i, j, k \in DOMAIN moutput :
         /\ i < j /\ j < k
         /\ moutput[i][1] = moutput[k][1]
         /\ moutput[j][1] # moutput[i][1]

IsPrefix(a, b) == Len(a) <= Len(b) /\ SubSeq(b, 1, Len(a)) = a

\* the line a tail worker has read and not yet written
InHand(f) == IF tlpc[f] \in {"write", "locked", "scheduled"} THEN Len(tline[f]) ELSE 0

HeapBooks(heap) == {heap[i] : i \in DOMAIN heap}

\* the books of a queue that are due before now and not marked returned
Overdue(heap, now) ==
    {b \in HeapBooks(heap) : book_due[b] < now /\ b \notin book_returned}

\* C11: a call next_overdue_book(queue, now) returns a book of the queue that is
\* due before now, not marked returned and has the earliest due date among such
\* books, taking it out of the queue, and it raises NoOverdueBooks exactly when
\* the queue holds no such book.
NextOverdueBookEarliest ==
    [][hresult' # [call |-> None] =>
         IF Overdue(hq, hnow') = {}
         THEN hresult' = [raise |-> "NoOverdueBooks"]
         ELSE \E book \in Overdue(hq, hnow') :
                 /\ hresult' = [return |-> book]
                 /\ \A b \in Overdue(hq, hnow') : book_due[book] <= book_due[b]
                 /\ book \notin HeapBooks(hq')]_vars

\* a call skipped a returned book with an earlier due date, returned an overdue
\* book and left a book that is not yet due in the queue
NextOverdueBookSkippedReturned ==
    \E book \in DOMAIN book_due :
        /\ hresult = [return |-> book]
        /\ \E b \in book_returned : b \notin HeapBooks(hq) /\ book_due[b] < book_due[book]
        /\ hq # <<>>

\* C12: once the process of a script with the harness has exited, after a clean
\* run, a logged caught error or an uncaught error, the scratch directory no
\* longer exists and the working directory is the one recorded at the start.
ExitedClean ==
    (hpc = "exited" /\ HasHarness(script)) => (~test_dir /\ cwd = "OLD_CWD")

\* a script with the harness has exited on an uncaught error, with a file written
ExitedAfterUncaughtError ==
    /\ hpc = "exited"
    /\ HasHarness(script)
    /\ outcome = "uncaught error"
    /\ written_in # {}

\* C13: at exit the files are closed first, then the working directory is
\* changed back, and only then is the scratch directory deleted: the directory
\* is never deleted while it is the working directory, and the working directory
\* is never changed back while a file is open.
ExitOrder ==
    (hpc \in {"exiting", "exited"} /\ HasHarness(script)) =>
        /\ ~test_dir => cwd = "OLD_CWD"
        /\ cwd = "OLD_CWD" => open_files = 0

\* the files are closed and the directory changed back, the scratch directory
\* is still to be deleted
ExitBeforeCleanup ==
    /\ hpc = "exiting"
    /\ atexit_funcs = <<"TEST_DIR.cleanup">>
    /\ test_dir /\ cwd = "OLD_CWD" /\ open_files = 0
    /\ written_in # {}

\* C14: every file a script creates or writes is inside the scratch directory of
\* its own harness.
WritesOnlyInScratch == written_in \subseteq {"TEST_DIR"}

\* C15: loading bytes pickled from a GameState, after del GameState and with no
\* hook for it in copyreg.dispatch_table, raises an exception: no object of
\* another type is returned.
LoadAfterDelRaises ==
    (GameState = 0 /\ example = 22 /\ dispatch_table = <<>>
       /\ "call" \notin DOMAIN state_after)
    => "raise" \in DOMAIN state_after

\* bytes that name the class GameState were loaded after del GameState
LoadedDeletedClass ==
    /\ GameState = 0 /\ example = 22
    /\ "class" \in DOMAIN serialized
    /\ state_after = [raise |-> "AttributeError"]

\* C16: with the versioned hooks of Examples 18-20 in place, bytes saved under
\* version 1 (kwargs with lives and without version) and bytes saved under
\* version 2 (kwargs with version 2) load into a GameState whose attributes are
\* exactly level, points and magic, each the saved value or, when it was not
\* saved, the default of the constructor.
VersionedLoad ==
    ( /\ example = 20
      /\ "kwargs" \in DOMAIN serialized
      /\ state_after # [call |-> None]
      /\ "call" \notin DOMAIN state_after
      /\ \/ "lives" \in DOMAIN serialized.kwargs /\ "version" \notin DOMAIN serialized.kwargs
         \/ "version" \in DOMAIN serialized.kwargs /\ serialized.kwargs.version = 2 )
    => /\ "raise" \notin DOMAIN state_after
       /\ state_after.class = 16
       /\ DOMAIN state_after.dict = {"level", "points", "magic"}
       /\ \A f \in {"level", "points", "magic"} :
            state_after.dict[f] = IF f \in DOMAIN serialized.kwargs
                                  THEN serialized.kwargs[f]
                                  ELSE [level |-> 0, points |-> 0, magic |-> 5][f]

\* bytes of version 1 with points earned were loaded under the versioned hooks
VersionOneLoaded ==
    /\ example = 20
    /\ "kwargs" \in DOMAIN serialized
    /\ "lives" \in DOMAIN serialized.kwargs /\ "version" \notin DOMAIN serialized.kwargs
    /\ serialized.kwargs.points = 1000
    /\ "dict" \in DOMAIN state_after
    /\ state_after.dict = [level |-> 1, points |-> 1000, magic |-> 5]

\* C17: with the unlocked Counter the final count may fall short of the number
\* of increments, and never exceeds it: once the workers are joined the count is
\* at least 1 and at most NumThreads * how_many, and the witness below is an
\* interleaving in which it is strictly less (a lost update).
UnlockedCounterAtMostTotal ==
    (counterClass = "Counter" /\ mpc = "joined") =>
        (found >= 1 /\ found <= NumThreads * how_many)

\* the workers of the unlocked Counter are joined and an increment was lost
UnlockedCounterLostUpdate ==
    counterClass = "Counter" /\ mpc = "joined" /\ found < NumThreads * how_many

\* C18: when communicate times out, the parent sends the termination signal and
\* then blocks in wait() until the child has exited: the parent never gets past
\* wait() while the child runs, and the exit status it reads afterwards is not None.
TimeoutWaitsForExit ==
    /\ procpc \in {"poll", "done"} => child = "exited"
    /\ procpc = "done" => polled # Nothing

\* the wait timed out, the child was terminated and its status -15 was read
TerminatedStatusRead ==
    procpc = "done" /\ sigterm /\ polled = Just(-15)

\* C19: once a FixedResistance is constructed (it has _ohms), every assignment
\* to its ohms attribute raises AttributeError and leaves the stored value as it was.
FixedResistanceImmutable ==
    [][(r_ohms # Nothing /\ r_call' # r_call) =>
          /\ r_call' = [set |-> r_call'.set, raise |-> "AttributeError"]
          /\ r_ohms' = r_ohms]_vars

\* r4 = FixedResistance(1); r4.ohms = 2 raised and r4.ohms is still 1
SecondWriteRejected ==
    r_ohms = Just(1) /\ r_call = [set |-> 2, raise |-> "AttributeError"]

\* C20: an assignment exam.attr = value changes what is read for no other Exam
\* instance and no other grade attribute; the instance assigned reads back the
\* value when it is within 0..100 and what it read before when the assignment
\* is rejected, so each instance reads the last value assigned on itself, 0 if none.
GradePerInstance ==
    [][grade_call' # grade_call =>
         \A attr \in {"math_grade", "writing_grade"}, exam \in 1..NumExams :
            GradeGet(grade_values', attr, exam) =
               IF /\ attr = grade_call'.attr /\ exam = grade_call'.exam
                  /\ 0 <= grade_call'.value /\ grade_call'.value <= 100
               THEN grade_call'.value
               ELSE GradeGet(grade_values, attr, exam)]_vars

\* first_exam.writing_grade = 82; second_exam.writing_grade = 75: each reads its own
GradesDiffer ==
    /\ GradeGet(grade_values, "writing_grade", 1) = 82
    /\ GradeGet(grade_values, "writing_grade", 2) = 75
    /\ GradeGet(grade_values, "math_grade", 1) = 0
    /\ grade_call = [attr |-> "writing_grade", exam |-> 2, value |-> 75]
\* C21: under both mechanisms a subclass whose sides is less than 3 is never
\* bound by its class statement, so no instance of it can be created: the
\* class statement raises instead
SubclassSidesValidated ==
    /\ \A cls \in classes : cls.sides # Nothing => cls.sides[1] >= 3
    /\ \A obj \in instances : obj.sides # Nothing => obj.sides[1] >= 3

\* the __init_subclass__ half of C21, which holds: Point(BetterPolygon) with
\* sides = 1 raises ValueError and is not bound
BetterPolygonValidated ==
    \A cls \in classes : cls.base = "BetterPolygon" => cls.sides # Nothing /\ cls.sides[1] >= 3

\* C22: reading an attribute of a BrokenDictionaryRecord never returns a
\* value: every access ends in an exception
BrokenRecordNeverReturns == "return" \notin DOMAIN attr_call

\* C23 as amended: a with log_level(level, name) block changes the level of
\* the named logger only; every other logger, the root included, keeps its
\* level inside and after the block, and after the block the named logger's
\* effective level is what it was before (its own level is then set to that
\* value, NOTSET is not restored)
LogLevelScoped ==
    levels_at_enter # Nothing =>
        /\ \A n \in Loggers \ {ll_name} : logger_level[n] = levels_at_enter[n]
        /\ ~ll_inside =>
              EffectiveLevel(logger_level, ll_name) = EffectiveLevel(levels_at_enter, ll_name)

\* a block on 'my-log' has been left: the logger that was NOTSET under a
\* WARNING root is now WARNING itself
LogLevelLeft ==
    /\ levels_at_enter # Nothing
    /\ ~ll_inside
    /\ ll_name = "my-log"
    /\ levels_at_enter["my-log"] = NOTSET
    /\ logger_level["my-log"] = WARNING
    /\ logger_level["other-log"] # NOTSET

\* C23 as stated: after the block the named logger has the level it had before
LogLevelRestored ==
    (levels_at_enter # Nothing /\ ~ll_inside) =>
        logger_level[ll_name] = levels_at_enter[ll_name]

\* C24: every object put on download_queue eventually reaches done_queue, so
\* the main thread's wait loop ends and the three workers are stopped and joined
PollingWorkersFinish ==
    <>(program = "polling" /\ ppc = "finished" /\ Len(queue[MaxStages + 1]) = NumItems)

\* C25: when run_threads, run_tasks_mixed or run_tasks has returned, the merged
\* output holds, for each input file, exactly the lines written to that file,
\* each once: confirm_merge finds nothing to object to
MergedComplete ==
    /\ mstate = "merged" => \A f \in Files : Found(moutput, f) = FileLines(f, written[f])
    /\ mstate # "AssertionError"

\* C27: tail_file never calls tell, seek or readline on a handle that
\* close_all has closed: no tail worker ends with the ValueError of an
\* operation on a closed file, and no run fails with it
TailNeverOnClosedHandle ==
    /\ \A f \in Files : tlpc[f] # "crashed"
    /\ mstate # "ValueError"

\* the grid a sequential pass over the cells produces: step_cell for each cell
\* in turn, reading g and writing a new grid
SequentialStep(g) ==
    [c \in Cells |-> game_logic(GridGet(g, c[1], c[2]), count_neighbors(c[1], c[2], g))]

\* C26: when simulate_threaded, simulate_pool or simulate_pipeline returns,
\* under any interleaving of its worker threads, every cell's work item has
\* finished and next_grid holds, for each cell, game_logic of the cell's state
\* and neighbour count in the input grid, which is unchanged: the grid of a
\* sequential pass (game_logic being the definition that returns)
SimulateSameAsSequential ==
    /\ spc \in {"joined", "returned"} =>
          /\ \A c \in Cells : fstate[c] = "finished"
          /\ next_grid = SequentialStep(grid)
    /\ (program = "pipeline" /\ failing = {} /\ ppc \in {"returned", "join_threads", "exited"}) =>
          next_grid = SequentialStep(grid)

\* simulate_threaded has returned a grid in which a cell that was ALIVE survived
\* and another was set EMPTY
ThreadedReturnedGeneration ==
    /\ spc = "joined"
    /\ sresult = "next_grid"
    /\ \E c \in Cells : grid[c] = ALIVE /\ next_grid[c] = ALIVE
    /\ \E c \in Cells : grid[c] = EMPTY

\* C28: between a PARAMS command and the first REPORT Correct after it, every
\* number the Session sends differs from the numbers it sent earlier in the
\* round, and a PARAMS command empties the list of earlier guesses
NumbersDistinctInRound ==
    [][/\ (srvpc = "receive" /\ c2s # <<>> /\ c2s' = Tail(c2s) /\ Head(c2s)[1] = "PARAMS")
            => guesses' = <<>>
       /\ (Len(s2c') > Len(s2c) /\ secret = Nothing)
            => /\ \A i \in DOMAIN guesses : <<Format(guesses[i])>> # s2c'[Len(s2c')]
               /\ \A i \in DOMAIN guesses : guesses[i] # guesses'[Len(guesses')]
               /\ s2c'[Len(s2c')] = <<Format(guesses'[Len(guesses')])>>]_vars

\* next_guess has drawn a number that was sent earlier in the round and has to
\* draw again
DuplicateDrawn ==
    /\ gimpl = "threaded"
    /\ srvpc = "next_guess"
    /\ secret = Nothing
    /\ \E i \in DOMAIN guesses : guesses[i] = RandInt(lower[1], upper[1])

DumpsLeavesStateUnchanged ==
    [][(script = "item_68" /\ game_state # [call |-> None] /\ serialized' # serialized)
          => game_state' = game_state]_vars
====
